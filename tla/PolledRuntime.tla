---------------------------- MODULE PolledRuntime ----------------------------
(***************************************************************************)
(* The runtime under the contract of software_api.md:45-47: the application *)
(* polls often enough, that is, the clock never moves more than             *)
(* poll_guard_ticks past the last completed poll.                           *)
(***************************************************************************)
EXTENDS RetentionRuntime

VARIABLE lag  \* ticks since the last poll read the clock

PolledInit == Init /\ lag = 0

PolledNext ==
  /\ Next
  /\ lag' = IF job.op = "poll" /\ job' = Idle THEN tick - job.now ELSE lag + (tick' - tick)
  /\ lag' <= PollGuard

\* The holder of the mutex goes on, and the thread that polls gets the mutex in the
\* end, however busy the others keep it.
PolledSpec ==
  /\ PolledInit /\ [][PolledNext]_<<vars, lag>>
  /\ WF_vars(JobStep) /\ SF_vars(Poll)

\* Every class with a finite retention retains longer than the guard.
ASSUME GuardAssumption == \A c \in Class : Retention[c] > PollGuard

\* What the guard is for: an unmapped buffer that is refreshed near its
\* deadline, or promoted with refresh as the fallback, never expires under a regular
\* poll, however calls change its class and its age in between
\* (rtmem.cpp:290-338).
MaintainedNeverExpires ==
  \A b \in Buffer :
    LET p == policy[buf[b].owner] IN
    buf[b].state = "EXPIRED" =>
      ~(p.action = "REFRESH" \/ (p.action = "PROMOTE" /\ ~p.required))

\* A polled runtime does not keep a buffer past its deadline: it is reclaimed,
\* unless a mapping holds it or a call gives it a new age first.
OverdueReclaimed ==
  \A b \in Buffer : Active(b) /\ ~Mapped(b) /\ Overdue(b, tick)
                      ~> ~(Active(b) /\ ~Mapped(b) /\ Overdue(b, tick))
=============================================================================
