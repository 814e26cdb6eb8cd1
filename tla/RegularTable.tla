---------------------------- MODULE RegularTable ----------------------------
(***************************************************************************)
(* What the allocation sync promises its readers: a table that only ever   *)
(* holds whole answers.  A read of the source takes time and the set it    *)
(* reads keeps changing; the table then becomes, in one step, a set that   *)
(* is not empty and, when the source answered in full and for its present  *)
(* state, holds everything that was in the source all the while and        *)
(* nothing that was not in it at some moment of the read (regularity, of a *)
(* register read while it is written).                                     *)
(***************************************************************************)
CONSTANT Item

VARIABLES
    source,   \* the set that is read
    table,    \* what the readers see
    read      \* the read under way: whether there is one, what was in the
              \* source at some moment of it, what was all the while, and
              \* whether the answers so far were whole and current

vars == <<source, table, read>>

NoRead == [on |-> FALSE, ever |-> {}, always |-> {}, honest |-> TRUE]

FreshRead(set) == [on |-> TRUE, ever |-> set, always |-> set, honest |-> TRUE]

Init ==
    /\ source \subseteq Item
    /\ table = {}
    /\ read = NoRead

Change ==
    /\ source' \in SUBSET Item
    /\ read' = IF read.on
               THEN [read EXCEPT !.ever = @ \cup source', !.always = @ \cap source']
               ELSE read
    /\ UNCHANGED table

\* A read begins, perhaps in place of one that is given up.
Begin ==
    /\ read' = FreshRead(source)
    /\ UNCHANGED <<source, table>>

\* Part of an answer is missing, or out of date.
Spoil ==
    /\ read.on
    /\ read' = [read EXCEPT !.honest = FALSE]
    /\ UNCHANGED <<source, table>>

GiveUp ==
    /\ read' = NoRead
    /\ UNCHANGED <<source, table>>

Replace ==
    /\ read.on
    /\ table' \in (SUBSET Item) \ {{}}
    /\ read.honest => read.always \subseteq table' /\ table' \subseteq read.ever
    /\ read' = NoRead
    /\ UNCHANGED source

Next == Change \/ Begin \/ Spoil \/ GiveUp \/ Replace

Spec == Init /\ [][Next]_vars
==============================================================================
