---------------------------- MODULE MCParamTypes ----------------------------
(* ParamTypes on a few values of each type. *)
EXTENDS ParamTypes, TLC

MCTypeOf ==
    [open |-> "literal", closed |-> "literal", draft |-> "literal",
     day |-> "date", compact |-> "date", yes |-> "boolean",
     found |-> "integer", year |-> "integer", next |-> "integer", huge |-> "integer",
     one |-> "float"]

MCValues == DOMAIN MCTypeOf

\* A compact date such as 20240115 is a date, and parses as a number; an integer of
\* 400 digits parses as no finite one; one is 1.0.
MCNumberOf ==
    [compact |-> 20240115, found |-> 404, year |-> 1999, next |-> 2000, one |-> 1]
    @@ [v \in MCValues |-> Absent]

MCTypeOrder == <<"boolean", "date", "float", "integer", "literal">>

MCSamples == {{"open", "closed", "draft", "day", "found"},
              {"open", "closed", "year", "compact", "one"},
              {"open", "yes", "year", "next", "huge"}}
=============================================================================
