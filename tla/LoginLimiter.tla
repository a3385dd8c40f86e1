---------------------------- MODULE LoginLimiter ----------------------------
(***************************************************************************)
(* The operator login limiter.  A login reserves an attempt for its        *)
(* identity before the password is verified in the background, and gives   *)
(* it back when the credentials were right or could not be verified.  The  *)
(* limiter keeps one entry per identity and fixed window, forgets windows  *)
(* that are over, and makes room for a new identity by dropping the one    *)
(* that was longest unused.                                                *)
(***************************************************************************)
EXTENDS Integers, FiniteSets, FiniteSetsExt, Functions

CONSTANTS
  Logins,       \* login handlers at work
  Identities,   \* keys: digests of normalised email addresses
  Limit,        \* LOGIN_RATE_LIMIT_ATTEMPTS
  Window,       \* LOGIN_RATE_LIMIT_WINDOW_SECS
  MaxKeys,      \* LOGIN_RATE_LIMIT_MAX_KEYS
  Permits,      \* LOGIN_VERIFY_CONCURRENCY
  MaxClock, MaxTries   \* bounds of the model

(* What the constants are assumed to be, by the modules that give them values. *)
LimiterConstants ==
  /\ Limit \in Nat \ {0} /\ Window \in Nat \ {0} /\ MaxKeys \in Nat \ {0}
  /\ Permits \in Nat \ {0} /\ MaxClock \in Nat /\ MaxTries \in Nat

VARIABLES
  clock,
  attempts,   \* the map: window_started_at, attempts and last_attempt_at by identity
  login,      \* each handler: where it is and the reservation it holds
  jobs,       \* verifications running in the background
  tries,
  failed,     \* history: the attempts that ended in wrong credentials
  gone,       \* history: attempts whose handler was dropped
  evicted     \* history: the identities that were dropped to make room

limiterVars == <<clock, attempts, login, jobs, tries, failed, gone, evicted>>

NoLogin == [pc |-> "idle", key |-> "none", start |-> 0, try |-> 0]

LimiterInit ==
  /\ clock = 0 /\ attempts = <<>> /\ login = [l \in Logins |-> NoLogin]
  /\ jobs = 0 /\ tries = 0 /\ failed = {} /\ gone = {} /\ evicted = {}

-----------------------------------------------------------------------------

(* prune: the windows that are over.                                       *)
Current(map) == Restrict(map, {k \in DOMAIN map : clock - map[k].start < Window})

(* evict_oldest, when a new identity finds the map full: any of the oldest. *)
Victims(map, k) ==
  IF k \in DOMAIN map \/ Cardinality(DOMAIN map) < MaxKeys THEN {{}}
  ELSE {{j} : j \in {j \in DOMAIN map : \A i \in DOMAIN map : map[j].last <= map[i].last}}

Entry(map, k) ==
  IF k \in DOMAIN map THEN map[k] ELSE [start |-> clock, count |-> 0, last |-> clock]

Put(map, k, e) == [j \in DOMAIN map \cup {k} |-> IF j = k THEN e ELSE map[j]]

(* reserve: an attempt is charged, or refused at the limit.                *)
Reserve(l, k) ==
  /\ login[l].pc = "idle" /\ tries < MaxTries /\ tries' = tries + 1
  /\ \E out \in Victims(Current(attempts), k) :
       LET kept == Restrict(Current(attempts), DOMAIN Current(attempts) \ out)
           entry == Entry(kept, k)
       IN /\ evicted' = evicted \cup out
          /\ IF entry.count >= Limit
             THEN attempts' = Put(kept, k, entry) /\ login' = login
             ELSE /\ attempts' = Put(kept, k, [start |-> entry.start, count |-> entry.count + 1, last |-> clock])
                  /\ login' = [login EXCEPT ![l] =
                       [pc |-> "verify", key |-> k, start |-> entry.start, try |-> tries']]
  /\ UNCHANGED <<clock, jobs, failed, gone>>

\* Variant: the attempt goes back to whatever window the identity is in.
RefundAnyWindow(l) ==
  LET k == login[l].key IN
  attempts' = IF k \notin DOMAIN attempts THEN attempts
              ELSE IF attempts[k].count <= 1 THEN Restrict(attempts, DOMAIN attempts \ {k})
              ELSE [attempts EXCEPT ![k].count = @ - 1]

(* refund: only to the window that was charged.                            *)
Refund(l) ==
  LET k == login[l].key IN
  attempts' = IF k \notin DOMAIN attempts \/ attempts[k].start # login[l].start THEN attempts
              ELSE IF attempts[k].count <= 1 THEN Restrict(attempts, DOMAIN attempts \ {k})
              ELSE [attempts EXCEPT ![k].count = @ - 1]

Done(l) == login' = [login EXCEPT ![l] = NoLogin]
Charge(l) == [key |-> login[l].key, start |-> login[l].start, try |-> login[l].try]

-----------------------------------------------------------------------------
(* verify_login_with_gate: at most Permits verifications at a time.         *)

Acquire(l) ==
  /\ login[l].pc = "verify" /\ jobs < Permits
  /\ jobs' = jobs + 1 /\ login' = [login EXCEPT ![l].pc = "running"]
  /\ UNCHANGED <<clock, attempts, tries, failed, gone, evicted>>

Unavailable(l) ==
  /\ login[l].pc = "verify" /\ jobs >= Permits
  /\ Refund(l) /\ Done(l)
  /\ UNCHANGED <<clock, jobs, tries, failed, gone, evicted>>

(* The password is right, or the job fails: the attempt is given back.      *)
Refunded(l) ==
  /\ login[l].pc = "running" /\ jobs' = jobs - 1
  /\ Refund(l) /\ Done(l)
  /\ UNCHANGED <<clock, tries, failed, gone, evicted>>

Wrong(l) ==
  /\ login[l].pc = "running" /\ jobs' = jobs - 1
  /\ failed' = failed \cup {Charge(l)} /\ Done(l)
  /\ UNCHANGED <<clock, attempts, tries, gone, evicted>>

(* The caller goes away: the job ends by itself, the attempt stays charged. *)
Dropped(l) ==
  /\ login[l].pc = "running"
  /\ login' = [login EXCEPT ![l].pc = "orphan"] /\ gone' = gone \cup {Charge(l)}
  /\ UNCHANGED <<clock, attempts, jobs, tries, failed, evicted>>

JobEnds(l) ==
  /\ login[l].pc = "orphan" /\ jobs' = jobs - 1 /\ Done(l)
  /\ UNCHANGED <<clock, attempts, tries, failed, gone, evicted>>

ClockTicks == clock < MaxClock /\ clock' = clock + 1
         /\ UNCHANGED <<attempts, login, jobs, tries, failed, gone, evicted>>

LimiterNext ==
  \/ \E l \in Logins :
       \/ (\E k \in Identities : Reserve(l, k))
       \/ Acquire(l) \/ Unavailable(l) \/ Refunded(l) \/ Wrong(l) \/ Dropped(l) \/ JobEnds(l)
  \/ ClockTicks

LimiterSpec == LimiterInit /\ [][LimiterNext]_limiterVars

-----------------------------------------------------------------------------
(* Properties.                                                             *)

(* The attempts that are charged: under way, wrong, or given up.           *)
Holders == {l \in Logins : login[l].pc \in {"verify", "running"}}
Charges == failed \cup gone \cup {Charge(l) : l \in Holders}
InWindow(as, k, start) == {a \in as : a.key = k /\ a.start = start}

(* Between the start of one of an identity's windows and its end, no more   *)
(* than Limit attempts with wrong credentials are completed for it, however *)
(* many run at once, unless the identity was dropped to make room.          *)
LimitHonoured ==
  \A k \in Identities \ evicted : \A start \in 0 .. MaxClock :
    Cardinality(InWindow(failed, k, start)) <= Limit

(* What an identity's entry counts is what happened in its window: the       *)
(* attempts under way, the wrong ones and those whose caller went away.      *)
ChargesMatch ==
  \A k \in DOMAIN attempts \ evicted :
    attempts[k].count = Cardinality(InWindow(Charges, k, attempts[k].start))

(* What the limiter counts and what it lets through agree.                   *)
LimiterSafety == LimitHonoured /\ ChargesMatch

-----------------------------------------------------------------------------
(* The inductive invariant behind LimiterSafety.                           *)

Entries == [start : Nat, count : Nat, last : Nat]
Reservations == [key : Identities, start : Nat, try : Nat]
LoginRecords == [pc : {"idle", "verify", "running", "orphan"}, key : Identities \cup {"none"},
                 start : Nat, try : Nat]

LimiterTypeOK ==
  /\ clock \in Nat /\ tries \in Nat
  /\ \A k \in DOMAIN attempts : k \in Identities /\ attempts[k] \in Entries /\ attempts[k].start <= clock
  /\ failed \subseteq Reservations /\ gone \subseteq Reservations
  /\ login \in [Logins -> LoginRecords] /\ \A l \in Holders : login[l].key \in Identities

(* No attempt is charged twice: each has a number of its own.               *)
AttemptsDistinct ==
  /\ IsFiniteSet(Charges) /\ \A a \in Charges : a.try <= tries /\ a.start <= clock
  /\ \A l, m \in Holders : login[l].try = login[m].try => l = m
  /\ \A l \in Holders : \A a \in failed \cup gone : a.try # login[l].try

(* For an identity that was never dropped: the entry counts its window, no  *)
(* window is over the limit, and a window that is not over and has no entry *)
(* has no charge.                                                           *)
WindowsOK(as, map, out, t) ==
  \A k \in Identities \ out :
    /\ k \in DOMAIN map => map[k].count = Cardinality(InWindow(as, k, map[k].start))
    /\ \A s \in Nat : Cardinality(InWindow(as, k, s)) <= Limit
    /\ \A s \in Nat : t - s < Window /\ ~(k \in DOMAIN map /\ map[k].start = s)
                      => InWindow(as, k, s) = {}

LimiterInv == LimiterTypeOK /\ AttemptsDistinct /\ WindowsOK(Charges, attempts, evicted, clock)
=============================================================================
