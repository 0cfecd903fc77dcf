------------------------------- MODULE MCViews -------------------------------
(* SqliteViews on a small instance: observed inputs that collide in every    *)
(* table, and inputs only read that stretch the parser.                      *)
EXTENDS SqliteViews

HTTPS == <<"https", ":", "/", "/">>
Host(sub) == <<sub, ".", "h", ".", "com">>

MCInputs == {
    HTTPS \o Host("a") \o <<"/", "users", "/", "1">>,
    HTTPS \o Host("b") \o <<"/", "users", "/", "3">>,
    HTTPS \o Host("a") \o <<"/", "users", "/", "2", "?", "q", "=", "2">>,
    <<"http", ":", "/", "/">> \o Host("a") \o <<"/", "users", "/", "2", "?", "q", "=", "1">>,
    HTTPS \o <<"k", ".", "co", ".", "uk", "/", "users", "/", "10", ".", "0", ".", "0", ".", "1",
               "/", "tok_1", "?", "q", "=", "tok_1", "&", "currency", "=", "tok_1">>,
    HTTPS \o <<"k", ".", "co", ".", "uk", "/", "users", "/", "1", "/", "#", "x">>,
    <<"urn", ":", "users", ":", "1">> }

Stretching == {
    <<" ">>, <<"h">>, <<"urn", ":">>, <<"mailto", ":">>, <<"https", ":", "/", "/", "/", "x">>,
    <<"localhost", "/", "x">>, <<"localhost", ":", "8080", "/", "x">>,
    <<"10", ".", "0", ".", "0", ".", "1", ":", "8080", "/", "users", "/", "20240102">>,
    HTTPS \o <<"H", ".", "com", ":", "0443", "/", "users", "/", ".", "/", "x", "/", ".", ".",
               "/", "/", "1">>,
    HTTPS \o <<"h", ".", "com", ":", "443", ":", "443">>,
    HTTPS \o <<"h", ".", "com", ":", "8080", ":", "8080">>,
    HTTPS \o <<"h", ".", "com", ":", "huge">>, HTTPS \o <<"h", ".", "com", " ", "#">>,
    HTTPS \o <<":", "443">>,
    HTTPS \o <<"h", ".", "com", "?", "flag", "&", "=", "1", "&", "flag", "=", "2", "=", "3",
               "&", "currency", "=", "x", "&", "cur", "=", "usd", "#", "a", "?", "b", "#">>,
    HTTPS \o <<"h", ".", "com", "/", "20240102", "/", "20249999", "/", "usd">>,
    <<"urn", ":", "day", ":", "20240102">>, <<"urn", ":", "day", ":", "20249999">>,
    <<"urn", ":", "/", "/", "x">>, <<"Mailto", ":", "users", ":", "1">> }

MCReadable == MCInputs \union Stretching

IPv4 == <<"10", ".", "0", ".", "0", ".", "1">>

MCTypeOf(value) ==
    CASE value \in {<<"1">>, <<"2">>, <<"3">>, <<"443">>, <<"8080">>} -> "integer"
      [] value = <<"2", "=", "3">> -> "opaque_id"
      [] value \in {<<"20240102">>, <<"20249999">>} -> "date"
      [] value = <<"usd">> -> "currency"
      [] value = IPv4 -> "ipv4"
      [] value = <<"tok_1">> -> "slug"
      [] OTHER -> "literal"

MCPrefixOf(value) == IF value = <<"tok_1">> THEN "tok_" ELSE None
MCSingular(value) == IF value = <<"users">> THEN "user" ELSE value
MCCanonicalOf ==
    (<<"20240102">> :> <<"2024-01-02">>) @@ (<<"usd">> :> <<"USD">>)
MCNameHints == (<<"currency">> :> "currency") @@ (<<"cur">> :> "currency")
MCPortOf == [w \in {"443", "0443", "8080", "1", "2", "10", "0"} |->
                CASE w \in {"443", "0443"} -> 443 [] w = "8080" -> 8080
                  [] w = "1" -> 1 [] w = "2" -> 2 [] w = "10" -> 10 [] OTHER -> 0]
            @@ [w \in {"huge"} |-> None]
MCPortWord == (443 :> "443") @@ (8080 :> "8080") @@ (1 :> "1") @@ (2 :> "2") @@ (10 :> "10")
              @@ (0 :> "0")
MCLowerOf == ("H" :> "h") @@ ("Mailto" :> "mailto")
MCSuffixes == {<< <<"co">>, <<"uk">> >>}
MCSchemeWords == {"https", "http", "urn", "mailto", "Mailto", "h", "H", "localhost", "com", "k"}
MCRecognizers == {[prefix |-> "tok_", type |-> "tok"]}
=============================================================================
