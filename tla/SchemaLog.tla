------------------------------ MODULE SchemaLog ------------------------------
(***************************************************************************)
(* What Database.open promises of the one file, with no statement,         *)
(* transaction or lock in it: the file is at some version, with all that   *)
(* belongs to it and nothing else; it moves up one version at a time, by   *)
(* the hand of somebody who is opening it, and never back; and open()      *)
(* returns only when there is nothing left to do.                          *)
(***************************************************************************)
EXTENDS Naturals

CONSTANTS Opener, Latest, Steps

VARIABLES stage,   \* where each opener is, as its caller sees it
          version, \* the version the file is at
          content  \* the parts of the schema that exist

vars == <<stage, version, content>>

\* The statements of these versions.
Made(V) == {<<v, i>> : v \in V, i \in 1..Steps}

Init ==
  /\ stage = [o \in Opener |-> "closed"]
  /\ version \in 0..Latest
  /\ content = Made(1..version)

Move(o, from, to) == stage[o] = from /\ stage' = [stage EXCEPT ![o] = to]

Call(o) == Move(o, "closed", "opening") /\ UNCHANGED <<version, content>>

Upgrade(o) ==
  /\ stage[o] = "opening"
  /\ version < Latest
  /\ version' = version + 1
  /\ content' = content \cup Made({version + 1})
  /\ UNCHANGED stage

Return(o) ==
  /\ version = Latest
  /\ Move(o, "opening", "open")
  /\ UNCHANGED <<version, content>>

Fail(o) == Move(o, "opening", "failed") /\ UNCHANGED <<version, content>>

Close(o) ==
  /\ \E from \in {"opening", "open", "failed"} : Move(o, from, "closed")
  /\ UNCHANGED <<version, content>>

Next == \E o \in Opener : Call(o) \/ Upgrade(o) \/ Return(o) \/ Fail(o) \/ Close(o)

Spec == Init /\ [][Next]_vars

-----------------------------------------------------------------------------

\* What follows for whoever knows no more than this module: the file holds what
\* its version says, and whoever has it open finds all of the latest one.
Promise ==
  /\ content = Made(1..version)
  /\ \A o \in Opener : stage[o] = "open" => version = Latest
=============================================================================
