---------------------------- MODULE MCCommandLine ----------------------------
(* Two builds, the older and the newer of one schema, run what a shell could. *)
EXTENDS CommandLine

CONSTANTS old, new

MCVersion == old :> 4 @@ new :> 5
MCCap == old :> 100 @@ new :> 200

MCInputFiles == "access.log" :> <<"u1", "u2">>
MCBadFiles == {"photo.png"}
MCPathLike == {"./typo.log"}
MCParseable == {"u1"}

MCFlags == [n |-> "sections", C |-> "no_corpus", V |-> "version", stats |-> "stats",
            reset |-> "reset", reinfer |-> "reinfer", propose |-> "propose",
            cross_host_shapes |-> "cross_host_shapes"]
MCValueOf == [corpus |-> <<"c.json">> :> "c.json" @@ <<"">> :> "",
              activate_above |-> <<"0.9">> :> 9]
MCCandidates == {"ghp", "sk"}

Shells == [no_corpus |-> FALSE, corpus |-> "", shell |-> "fish"]
OptedOut == [Shells EXCEPT !.no_corpus = TRUE]
InJson == [Shells EXCEPT !.corpus = "c.json"]
Run(argv) == [argv |-> argv, piped |-> FALSE, text |-> <<>>, env |-> Shells]
N == <<"-", "n">>
Activate == <<<<"--", "propose">>, <<"--", "activate_above">>, <<"0.9">>>>

MCInvocations == {
    Run(<<<<"-", "n", "C">>, <<"access.log">>>>),
    Run(<<N, <<"access.log">>>>),
    Run(<<<<"cluster">>, <<"access.log">>>>),
    [Run(<<N, <<"--", "corpus", "c.json">>>>) EXCEPT !.piped = TRUE, !.text = <<"u1", "u2">>],
    [Run(<<<<"--", "corpus">>, <<"c.json">>, <<"u1">>>>) EXCEPT !.env = OptedOut],
    Run(Activate),
    [Run(Activate) EXCEPT !.env = InJson],
    Run(<<<<"--", "reinfer">>>>),
    Run(<<<<"--", "reset">>>>),
    [Run(<<<<"-", "C">>, <<"--", "reset">>>>) EXCEPT !.env = InJson],
    Run(<<<<"--", "cross_host_shapes">>, <<"--", "corpus", "">>, <<"-", "C">>>>),
    Run(<<<<"--", "stats">>>>),
    Run(<<<<"--", "stats">>, <<"u1">>>>),
    Run(<<<<"--">>, <<"-n">>>>),
    Run(<<<<"photo.png">>>>),
    Run(<<<<"cluster">>, <<"missing.log">>>>),
    Run(<<<<"./typo.log">>>>),
    Run(<<<<"completion">>>>),
    Run(<<<<"completion">>, <<"zsh">>>>),
    Run(<<<<"-", "V">>>>),
    Run(<<<<"--", "bogus">>>>),
    Run(<<<<"u1">>, <<"--", "corpus">>>>) }
=============================================================================
