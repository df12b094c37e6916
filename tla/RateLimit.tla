------------------------------ MODULE RateLimit ------------------------------
(***************************************************************************)
(* core/rate_limit.py: the sliding window of one (org_id, action) pair.    *)
(* Windows of different pairs share nothing.  check_and_increment has no   *)
(* await, so a call is one step of the event loop.                         *)
(*                                                                         *)
(* Time is counted in ticks, TicksPerSecond of them to a second: the clock *)
(* is finer than the whole seconds that retry_after is rounded up to.      *)
(***************************************************************************)
EXTENDS Integers, Sequences

CONSTANTS
  Limit,           \* calls allowed per window (config.RATE_LIMITS)
  WindowSeconds,   \* length of the window
  TicksPerSecond,
  MaxTime,         \* bound: ticks
  MaxCalls         \* bound: calls that were let through

ASSUME RateLimitAssumption ==
  /\ Limit \in Nat \ {0}
  /\ WindowSeconds \in Nat \ {0}
  /\ TicksPerSecond \in Nat \ {0}
  /\ MaxTime \in Nat
  /\ MaxCalls \in Nat

VARIABLES
  now,       \* time.monotonic()
  dq,        \* the deque: when recent calls were let through
  log,       \* history: when every call was let through
  rejected   \* history: the last RateLimitError since then; after = 0 if none

vars == <<now, dq, log, rejected>>

Window == WindowSeconds * TicksPerSecond

NoRejection == [at |-> 0, after |-> 0]

-----------------------------------------------------------------------------
\* Mutant: an entry that is exactly one window old is kept.
ExpiredStrict(k) ==
  /\ \A i \in 1..k : dq[i] < now - Window
  /\ k < Len(dq) => dq[k + 1] >= now - Window

\* The eviction loop stops after k entries.
Expired(k) ==
  /\ \A i \in 1..k : dq[i] <= now - Window
  /\ k < Len(dq) => dq[k + 1] > now - Window

\* Mutant: the answer is rounded down.
RetryAfterFloor(first) ==
  LET seconds == (first + Window - now) \div TicksPerSecond
  IN IF seconds < 1 THEN 1 ELSE seconds

\* max(1, ceil(first + window - now)), in seconds.
RetryAfter(first) ==
  LET seconds == (first + Window - now + TicksPerSecond - 1) \div TicksPerSecond
  IN IF seconds < 1 THEN 1 ELSE seconds

\* Mutant: the check lets one call too many through.
AdmitOneMore(k) ==
  LET kept == SubSeq(dq, k + 1, Len(dq))
  IN /\ Len(kept) <= Limit
     /\ Len(log) < MaxCalls
     /\ dq' = Append(kept, now)
     /\ log' = Append(log, now)
     /\ rejected' = NoRejection
     /\ UNCHANGED now

\* The call is recorded.
Admit(k) ==
  LET kept == SubSeq(dq, k + 1, Len(dq))
  IN /\ Len(kept) < Limit
     /\ Len(log) < MaxCalls
     /\ dq' = Append(kept, now)
     /\ log' = Append(log, now)
     /\ rejected' = NoRejection
     /\ UNCHANGED now

\* RateLimitError; the expired entries are gone all the same.
Reject(k) ==
  LET kept == SubSeq(dq, k + 1, Len(dq))
  IN /\ Len(kept) >= Limit
     /\ dq' = kept
     /\ rejected' = [at |-> now, after |-> RetryAfter(kept[1])]
     /\ UNCHANGED <<now, log>>

check_and_increment ==
  \E k \in 0..Len(dq) : Expired(k) /\ (Admit(k) \/ Reject(k))

Tick ==
  /\ now < MaxTime
  /\ now' = now + 1
  /\ UNCHANGED <<dq, log, rejected>>

Init ==
  /\ now = 0
  /\ dq = <<>>
  /\ log = <<>>
  /\ rejected = NoRejection

Next == check_and_increment \/ Tick

Spec == Init /\ [][Next]_vars

-----------------------------------------------------------------------------
TypeOK ==
  /\ now \in Nat
  /\ dq \in Seq(Nat) /\ Len(dq) <= Limit
  /\ log \in Seq(Nat)
  /\ rejected \in [at: Nat, after: Nat]

(***************************************************************************)
(* No stretch of time shorter than the window sees more than Limit calls   *)
(* let through, wherever it begins: there is no boundary at which a client *)
(* gets twice the budget (rate_limit.py:62-75).                            *)
(***************************************************************************)
WindowBound ==
  \A i \in 1..(Len(log) - Limit) : log[i + Limit] - log[i] >= Window

(***************************************************************************)
(* A call is refused only when Limit calls were let through in the window  *)
(* that ends now: an idle client is never refused (rate_limit.py:68).      *)
(***************************************************************************)
NoFalseRejection ==
  rejected.after > 0 =>
    /\ Len(log) >= Limit
    /\ \A i \in (Len(log) - Limit + 1)..Len(log) : log[i] > rejected.at - Window

\* A call made at time t, after which no call was let through, would be refused.
FullAt(t) ==
  /\ Len(log) >= Limit
  /\ log[Len(log) - Limit + 1] > t - Window

(***************************************************************************)
(* retry_after is right to the second (rate_limit.py:69): a client that    *)
(* waits that long is let through unless somebody else was in between, one *)
(* that comes back a second early is refused, and nobody is told to wait   *)
(* longer than a window.                                                   *)
(***************************************************************************)
RetryAfterExact ==
  rejected.after > 0 =>
    /\ ~FullAt(rejected.at + rejected.after * TicksPerSecond)
    /\ rejected.after > 1 =>
         FullAt(rejected.at + (rejected.after - 1) * TicksPerSecond)
    /\ rejected.after <= WindowSeconds

=============================================================================
