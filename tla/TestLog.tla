-------------------------------- MODULE TestLog --------------------------------
(***************************************************************************)
(* What core/test_runner.py promises to the window and to the scheduler,   *)
(* with no lock, engine or thread in it: tests take turns, a call is       *)
(* turned away only while somebody has the turn, and it leaves one record  *)
(* that tells what it was.  Who asks whether a test runs has the turn too, *)
(* for the moment of the question.                                         *)
(***************************************************************************)
CONSTANTS Attempt, Outcome, Skipped  \* Skipped is not an Outcome

VARIABLES stage,  \* where each call is, as its caller and the others see it
          asking, \* somebody is asking whether a test runs
          log,    \* the records
          told    \* the calls whose caller was told that nothing was saved

vars == <<stage, asking, log, told>>

Stage == {"new", "called", "testing", "refused", "done", "lost"}

Recorded(a) == \E r \in log : r.of = a

Testing == \E a \in Attempt : stage[a] = "testing"

Init ==
  /\ stage = [a \in Attempt |-> "new"]
  /\ asking = FALSE
  /\ log = {}
  /\ told = {}

Move(a, from, to) == stage[a] = from /\ stage' = [stage EXCEPT ![a] = to]

Call(a) == Move(a, "new", "called") /\ UNCHANGED <<asking, log, told>>

\* Tests take turns.
Begin(a) ==
  /\ ~Testing /\ ~asking
  /\ Move(a, "called", "testing")
  /\ UNCHANGED <<asking, log, told>>

Refuse(a) ==
  /\ Testing \/ asking
  /\ Move(a, "called", "refused")
  /\ UNCHANGED <<asking, log, told>>

\* One record per call; only a call whose turn it is can record a measurement,
\* and only a call that was turned away is recorded as skipped.
Record(a) ==
  /\ ~Recorded(a) /\ a \notin told
  /\ \/ stage[a] = "testing" /\ \E s \in Outcome : log' = log \cup {[of |-> a, status |-> s]}
     \/ stage[a] = "refused" /\ log' = log \cup {[of |-> a, status |-> Skipped]}
  /\ UNCHANGED <<stage, asking, told>>

CannotRecord(a) ==
  /\ stage[a] \in {"refused", "testing"}
  /\ ~Recorded(a)
  /\ told' = told \cup {a}
  /\ UNCHANGED <<stage, asking, log>>

\* The caller gets its answer only when the record, or the bad news, exists.
Answer(a) ==
  /\ Recorded(a) \/ a \in told
  /\ \E from \in {"refused", "testing"} : Move(a, from, "done")
  /\ UNCHANGED <<asking, log, told>>

\* The caller dies, or gets an exception instead of an answer.
Vanish(a) ==
  /\ \E from \in {"called", "refused", "testing"} : Move(a, from, "lost")
  /\ UNCHANGED <<asking, log, told>>

\* The answer is yes when somebody tests; otherwise the question takes the turn.
Ask ==
  /\ ~Testing /\ ~asking
  /\ asking' = TRUE
  /\ UNCHANGED <<stage, log, told>>

StopAsking ==
  /\ asking
  /\ asking' = FALSE
  /\ UNCHANGED <<stage, log, told>>

Next ==
  \/ Ask \/ StopAsking
  \/ \E a \in Attempt :
       \/ Call(a) \/ Begin(a) \/ Refuse(a)
       \/ Record(a) \/ CannotRecord(a) \/ Answer(a) \/ Vanish(a)

Spec == Init /\ [][Next]_vars

-----------------------------------------------------------------------------

\* What follows for whoever knows no more than this module: no two calls test at
\* once, there is one record of a call at most, and a call that is answered has
\* left one or has told its caller so, and not both.
Promise ==
  /\ \A a, b \in Attempt : stage[a] = "testing" /\ stage[b] = "testing" => a = b
  /\ \A r, s \in log : r.of = s.of => r = s
  /\ \A a \in Attempt : ~(Recorded(a) /\ a \in told)
  /\ \A a \in Attempt : stage[a] = "done" => Recorded(a) \/ a \in told
=============================================================================
