------------------------------- MODULE MCServer -------------------------------
(***************************************************************************)
(* A value of each kind that takes a course of its own, one client that    *)
(* calls twice and one that does once.                                     *)
(***************************************************************************)
EXTENDS CacheServer

CONSTANTS c1, c2

MCKindOf == [v \in {"plain", "line break", "over 4096", "over 65535", "says close"} |-> v]

\* Cut at the right place, the rest of a "plain" value is a SET of its own; after the line break there is a QUIT.
MCRestsOf ==
  [cmd \in Commands |->
     CASE cmd.op = "SET" /\ cmd.val = "plain" -> {cmd}
       [] cmd.op = "SET" /\ cmd.val = "line break" -> {Quit}
       [] OTHER -> {}]

MCMaxCalls == [c \in {c1, c2} |-> IF c = c1 THEN 2 ELSE 1]

\* One client stores and reads, the other deletes.
MCAsked ==
  [c \in {c1, c2} |-> {cmd \in Commands : IF c = c1 THEN cmd.op # "DEL" ELSE cmd.op = "DEL"}]
=============================================================================
