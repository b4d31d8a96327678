---------------------------------- MODULE Lists ----------------------------------
(***************************************************************************)
(* The one operation on lists that the components share: leaving elements   *)
(* out, as a query with a WHERE clause or a filter in the browser does.      *)
(***************************************************************************)
EXTENDS Integers, Sequences

\* The members of a list that are in S, in their order
Among(list, S) ==
    LET upTo[i \in 0..Len(list)] ==
            IF i = 0 THEN <<>>
            ELSE IF list[i] \in S THEN Append(upTo[i - 1], list[i]) ELSE upTo[i - 1]
    IN  upTo[Len(list)]
================================================================================
