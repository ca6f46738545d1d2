---------------------------- MODULE Notifications ----------------------------
(***************************************************************************)
(* Delivery of the e-mails the service owes (service/notifications.go):    *)
(* transactions write notification intents, worker processes hand them to  *)
(* Novu, the scheduler expires them (worker.go 275-288), and codes that    *)
(* were used take theirs back (auth.go 169, identity_privacy.go 335).      *)
(*                                                                         *)
(* One round of WorkNotification is: sweep lapsed leases and lease an      *)
(* intent in a first transaction; check eligibility with unlocked reads;   *)
(* call Novu; record the answer.  Except for the last, the updates of a    *)
(* round name the intent by its id alone, whatever state it is in by then, *)
(* and there is no lease token.                                            *)
(*                                                                         *)
(* Time appears as the lapse of a lease, the passing of expires_at and the *)
(* end of a wait (available_at).  What notificationEligibility looks up    *)
(* about the recipient, the code or the payment is one fact: the message   *)
(* is still wanted, until it is not.                                       *)
(***************************************************************************)
EXTENDS Naturals

CONSTANTS Notices,     \* notification intents
          Codes,       \* those that carry a one-time code (secret)
          Released,    \* those whose workflow is on the Novu allowlist
          Workers,     \* worker processes
          None

ASSUME NoticeAssumption == Codes \subseteq Notices /\ Released \subseteq Notices

VARIABLES
  state,      \* notification_intents.state, "none" before the row exists
  lapsed,     \* leased notices whose lease_until has passed
  waiting,    \* queued notices whose available_at is ahead
  overdue,    \* notices whose expires_at has passed
  cleared,    \* notices whose payload_enc was emptied
  unwanted,   \* notices whose reason to be sent is gone
  worker,     \* local state of each WorkNotification call
  posts       \* history: calls of Novu made for each notice

rows == <<state, lapsed, waiting, cleared>>
facts == <<overdue, unwanted>>
noticeVars == <<rows, facts, worker, posts>>

Idle    == [stage |-> "idle", notice |-> None, answer |-> "none"]
Answers == {"taken", "refused", "none"}
Settled == {"submitted", "unknown", "suppressed", "expired", "dead"}
Round   == [stage : {"leased", "eligible", "posted"}, notice : Notices, answer : Answers]

Holds(w, n) == worker[w].stage # "idle" /\ worker[w].notice = n

-----------------------------------------------------------------------------
(* notifyOccurrence: written with the business change it reports; a second *)
(* one with the same reference and occurrence does nothing.                *)
Notify(n) ==
  /\ state[n] = "none"
  /\ state' = [state EXCEPT ![n] = "queued"]
  /\ UNCHANGED <<lapsed, waiting, cleared, facts, worker, posts>>

(* Mutant: a lapsed lease goes back to the queue.                          *)
AfterLapse_Requeue == "queued"

(* "An expired lease is an ambiguous previous submission, not permission   *)
(* to send again."                                                         *)
AfterLapse == "unknown"

Swept == [n \in Notices |-> IF n \in lapsed THEN AfterLapse ELSE state[n]]

(* First transaction: sweep, then lease a queued notice if there is one.   *)
Due == {n \in Notices : Swept[n] = "queued" /\ n \notin waiting}

LeaseNotice(w, n) ==
  /\ worker[w] = Idle
  /\ n \in Due
  /\ state' = [Swept EXCEPT ![n] = "leased"]
  /\ lapsed' = {}
  /\ worker' = [worker EXCEPT ![w] = [@ EXCEPT !.stage = "leased", !.notice = n]]
  /\ UNCHANGED <<waiting, cleared, facts, posts>>

SweepOnly(w) ==
  /\ worker[w] = Idle
  /\ Due = {} /\ lapsed # {}
  /\ state' = Swept
  /\ lapsed' = {}
  /\ UNCHANGED <<waiting, cleared, facts, worker, posts>>

-----------------------------------------------------------------------------
(* The round goes on without a transaction                                 *)

EndRound(w) == worker' = [worker EXCEPT ![w] = Idle]

(* A notice moves to a state that is not a lease.                          *)
Becomes(n, s) ==
  /\ state' = [state EXCEPT ![n] = s]
  /\ lapsed' = lapsed \ {n}

(* Back to the queue: the workflow is not released (for an hour), or the   *)
(* check could not be made (for a minute), as when the payload was emptied. *)
PutBack(w) ==
  /\ worker[w].stage = "leased"
  /\ Becomes(worker[w].notice, "queued")
  /\ waiting' = waiting \cup {worker[w].notice}
  /\ EndRound(w)
  /\ UNCHANGED <<cleared, facts, posts>>

(* notificationEligibility, at the moment it is asked.                     *)
Stale(n) == n \in overdue \/ state[n] \in {"suppressed", "expired", "dead"}

Refuse(w) ==
  /\ worker[w].stage = "leased"
  /\ LET n == worker[w].notice IN
     /\ n \in Released
     /\ Stale(n) \/ n \in unwanted \ cleared
     /\ Becomes(n, "suppressed")
     /\ cleared' = IF n \in Codes THEN cleared \cup {n} ELSE cleared
  /\ EndRound(w)
  /\ UNCHANGED <<waiting, facts, posts>>

Pass(w) ==
  /\ worker[w].stage = "leased"
  /\ LET n == worker[w].notice IN
     /\ n \in Released
     /\ ~Stale(n) /\ n \notin unwanted \cup cleared
  /\ worker' = [worker EXCEPT ![w] = [@ EXCEPT !.stage = "eligible"]]
  /\ UNCHANGED <<rows, facts, posts>>

(* The call: taken (2xx), refused (4xx), or nobody knows.                  *)
Post(w) ==
  /\ worker[w].stage = "eligible"
  /\ posts' = [posts EXCEPT ![worker[w].notice] = @ + 1]
  /\ \E a \in Answers :
       worker' = [worker EXCEPT ![w] = [@ EXCEPT !.stage = "posted", !.answer = a]]
  /\ UNCHANGED <<rows, facts>>

StateFor(answer) ==
  IF answer = "taken" THEN "submitted" ELSE IF answer = "refused" THEN "dead" ELSE "unknown"

(* The last update is the one that looks at the state.                     *)
Record(w) ==
  /\ worker[w].stage = "posted"
  /\ LET n == worker[w].notice IN
     IF state[n] = "leased" THEN Becomes(n, StateFor(worker[w].answer))
                            ELSE UNCHANGED <<state, lapsed>>
  /\ EndRound(w)
  /\ UNCHANGED <<waiting, cleared, facts, posts>>

(* The process dies, or an update fails.                                   *)
Crash(w) ==
  /\ worker[w] # Idle
  /\ EndRound(w)
  /\ UNCHANGED <<rows, facts, posts>>

-----------------------------------------------------------------------------
(* Others that write notices                                               *)

(* Mutant: the scheduler leaves queued notices alone.                      *)
Expirable_Leased(n) == state[n] = "leased" /\ n \in overdue

Expirable(n) == state[n] \in {"queued", "leased"} /\ n \in overdue

(* Scheduler: everything past expires_at that is not settled.              *)
Scheduler ==
  LET gone == {n \in Notices : Expirable(n)} IN
  /\ gone # {}
  /\ state' = [n \in Notices |-> IF n \in gone THEN "expired" ELSE state[n]]
  /\ cleared' = cleared \cup (gone \cap Codes)
  /\ lapsed' = lapsed \ gone
  /\ UNCHANGED <<waiting, facts, worker, posts>>

(* Mutant: staff may also suppress what a worker holds.                    *)
Suppressible_Leased(n) == n \notin Codes /\ state[n] \in {"queued", "leased", "dead"}

Suppressible(n) == n \notin Codes /\ state[n] \in {"queued", "dead"}

(* The staff command notification_suppress.                                *)
StaffSuppress(n) ==
  /\ Suppressible(n)
  /\ Becomes(n, "suppressed")
  /\ UNCHANGED <<waiting, cleared, facts, worker, posts>>

(* A one-time code was used: its notice is suppressed in whatever state.   *)
CodeUsed(n) ==
  /\ n \in Codes \ unwanted /\ state[n] # "none"
  /\ unwanted' = unwanted \cup {n}
  /\ Becomes(n, "suppressed")
  /\ cleared' = cleared \cup {n}
  /\ UNCHANGED <<waiting, overdue, worker, posts>>

(* The address changed or bounced, the account was closed, the payment was *)
(* settled, the code was tried too often.                                  *)
NoLongerWanted(n) ==
  /\ n \notin unwanted /\ state[n] # "none"
  /\ unwanted' = unwanted \cup {n}
  /\ UNCHANGED <<rows, overdue, worker, posts>>

(* Time passes.                                                            *)
LeaseLapses(n) ==
  /\ state[n] = "leased" /\ n \notin lapsed
  /\ lapsed' = lapsed \cup {n}
  /\ UNCHANGED <<state, waiting, cleared, facts, worker, posts>>

WaitEnds(n) ==
  /\ n \in waiting
  /\ waiting' = waiting \ {n}
  /\ UNCHANGED <<state, lapsed, cleared, facts, worker, posts>>

Expires(n) ==
  /\ state[n] # "none" /\ n \notin overdue
  /\ overdue' = overdue \cup {n}
  /\ UNCHANGED <<rows, unwanted, worker, posts>>

-----------------------------------------------------------------------------
NoticeInit ==
  /\ state = [n \in Notices |-> "none"]
  /\ lapsed = {} /\ waiting = {} /\ cleared = {}
  /\ overdue = {} /\ unwanted = {}
  /\ worker = [w \in Workers |-> Idle]
  /\ posts = [n \in Notices |-> 0]

WorkerStep(w) ==
  \/ \E n \in Notices : LeaseNotice(w, n)
  \/ SweepOnly(w)
  \/ PutBack(w) \/ Refuse(w) \/ Pass(w)
  \/ Post(w) \/ Record(w)
  \/ Crash(w)

NoticeStep(n) ==
  \/ Notify(n) \/ StaffSuppress(n) \/ CodeUsed(n) \/ NoLongerWanted(n)
  \/ LeaseLapses(n) \/ WaitEnds(n) \/ Expires(n)

(* Everything may be settled for good: the system then waits for business. *)
Quiet ==
  /\ \A n \in Notices : state[n] \in Settled
  /\ UNCHANGED noticeVars

NoticeNext ==
  \/ \E w \in Workers : WorkerStep(w)
  \/ \E n \in Notices : NoticeStep(n)
  \/ Scheduler \/ Quiet

NoticeSpec == NoticeInit /\ [][NoticeNext]_noticeVars

(* Time passes; the workers poll every second (a lapsed lease is swept,    *)
(* calls have deadlines and so end), and the scheduler runs every minute.  *)
(* A notice that is put back stays in the queue for a minute or an hour,   *)
(* so the scheduler finds it there once it is overdue.                     *)
Fairness ==
  /\ \A n \in Notices : WF_noticeVars(Expires(n)) /\ WF_noticeVars(WaitEnds(n)) /\ WF_noticeVars(LeaseLapses(n))
  /\ \A n \in Notices : SF_noticeVars(state[n] = "queued" /\ Expirable(n) /\ Scheduler)
  /\ \A w \in Workers : WF_noticeVars(WorkerStep(w))

NoticeFairSpec == NoticeSpec /\ Fairness

-----------------------------------------------------------------------------
(* Properties                                                              *)

(* The variables hold values of their types.                               *)
NoticeTypeOK ==
  /\ state \in [Notices -> {"none", "queued", "leased"} \cup Settled]
  /\ lapsed \subseteq Notices /\ waiting \subseteq Notices /\ cleared \subseteq Notices
  /\ overdue \subseteq Notices /\ unwanted \subseteq Notices
  /\ worker \in [Workers -> Round \cup {Idle}]
  /\ posts \in [Notices -> Nat]

(* Although rounds overwrite each other's states by id, and a lapsed round *)
(* goes on, Novu is called at most once for a notice.                      *)
SubmittedAtMostOnce == \A n \in Notices : posts[n] <= 1

(* A notice in the queue was never handed over; one whose answer is        *)
(* recorded was.                                                           *)
StateTellsOfPosts ==
  \A n \in Notices :
    /\ state[n] \in {"none", "queued"} => posts[n] = 0
    /\ state[n] \in {"submitted", "dead"} => posts[n] = 1

(* States in which no round of the notice is under way.                    *)
Closed(n) == state[n] \in {"submitted", "dead"} \/ (state[n] = "suppressed" /\ n \notin Codes)

(* What makes it so: a notice has one holder, and none while it is queued. *)
HolderInv ==
  /\ \A n \in lapsed : state[n] = "leased"
  /\ \A w \in Workers, n \in Notices : Holds(w, n) =>
       /\ state[n] \notin {"none", "queued"}
       /\ worker[w].stage = "posted" <=> posts[n] = 1
  /\ \A v, w \in Workers, n \in Notices : Holds(v, n) /\ Holds(w, n) => v = w
  /\ \A n \in Notices : Closed(n) => \A w \in Workers : ~Holds(w, n)

NoticeInv == NoticeTypeOK /\ SubmittedAtMostOnce /\ StateTellsOfPosts /\ HolderInv

(* What staff suppress, and what was refused as unwanted, stays            *)
(* suppressed: no worker holds it that could put it back.                  *)
SuppressionIsFinal ==
  [][\A n \in Notices \ Codes : state[n] = "suppressed" => state'[n] = "suppressed"]_noticeVars

(* Every notice that is queued is settled in the end, also one whose       *)
(* workflow is never released or whose check fails again and again.        *)
NoticesSettle == <>[](\A n \in Notices : state[n] \notin {"queued", "leased"})
=============================================================================
