-------------------------------- MODULE MCLoops --------------------------------
(* Small instances of the two loops every tool stands on for TLC: a bulk call   *)
(* (BatchExecute) and a paged read (PagedReads).  They have nothing in common,  *)
(* and a behaviour is of one of them.                                          *)
EXTENDS BatchExecute, PagedReads

\* A bulk call that is over: every item failed its preflight and was announced.
NoBatch ==
  /\ named = [i \in Items |-> CHOOSE r \in Records : TRUE] /\ unfit = Items
  /\ world = [r \in Records |-> "reviewed"] /\ achieved = {} /\ foreign = 0 /\ cancelled = FALSE
  /\ stage = [i \in Items |-> "done"] /\ outcome = [i \in Items |-> "failed"]
  /\ patch = [i \in Items |-> "unsent"] /\ raced = {}
  /\ completed = N /\ number = [i \in Items |-> i] /\ mutex = 0 /\ quiet = TRUE
  /\ notified = [k \in Items |-> k]

\* A loop that is over: its first request failed.
NoRead ==
  /\ scan = ListAll /\ spent = Unspent /\ skip = 0 /\ listed = {} /\ steady = {}
  /\ requests = 0 /\ got = [r \in Listable |-> 0] /\ found = {} /\ answer = "failed"
  /\ changes = 0 /\ hollow = FALSE /\ withheld = {} /\ cut = FALSE /\ slid = {} /\ pushed = {}

\* The two records are interchangeable, and an unfit item only loses
\* behaviours a fit one has: one of the batch shows what it does.
MCInit ==
  \/ Init /\ named[1] = (CHOOSE r \in Records : TRUE) /\ unfit \subseteq {1} /\ NoRead
  \/ NoBatch /\ LoopInit

MCNext ==
  \/ Next /\ UNCHANGED loopVars
  \/ LoopNext /\ UNCHANGED vars

MCSpec ==
  /\ MCInit /\ [][MCNext]_<<vars, loopVars>>
  /\ \A i \in Items : WF_vars(Step(i))
  /\ WF_loopVars(Turn)

===============================================================================
