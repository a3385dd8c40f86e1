-------------------------- MODULE OperatorSessions --------------------------
(***************************************************************************)
(* The sessions of one operator: login opens a family of refresh           *)
(* credentials, refresh exchanges the family's current credential for the  *)
(* next one and a short-lived access token, logout ends the family.  Each  *)
(* handler reads the clock once, at its start.  The identity database runs *)
(* one transaction at a time; between two of them a handler waits for the  *)
(* policy backend, where the operator's membership and the organisation's  *)
(* status may change at any time.                                          *)
(***************************************************************************)
EXTENDS Integers, Sequences, FiniteSets

CONSTANTS
  Requests,     \* handlers of login and refresh at work
  Families,     \* refresh families that can be opened
  AccessTtl,    \* ACCESS_TOKEN_TTL_SECS
  RefreshTtl,   \* REFRESH_TOKEN_TTL_SECS
  Never,        \* no time
  MaxSessions, MaxTime   \* bounds of the model

(* What the constants are assumed to be, by the modules that give them values. *)
SessionConstants ==
  /\ AccessTtl \in Nat \ {0} /\ RefreshTtl \in Nat \ {0}
  /\ MaxSessions \in Nat /\ MaxTime \in Nat /\ Never \notin Nat

VARIABLES
  now,
  member,     \* the operator has a role in the organisation
  active,     \* the organisation is active
  families,   \* operator_refresh_family: open, revoked, or unused so far
  sessions,   \* operator_refresh_session, in the order of insertion
  request,    \* each handler: where it is, what it was given, when it began
  minted,     \* history: the access tokens that were signed
  ended,      \* history: when each family was revoked
  since       \* history: since when the operator or the organisation is out

policy == <<member, active, since>>
store == <<families, sessions, ended>>
sessionVars == <<now, policy, store, request, minted>>

NoRequest == [pc |-> "idle", kind |-> "none", family |-> Never, session |-> 0, at |-> 0]

SessionsInit ==
  /\ now = 0 /\ member = TRUE /\ active = TRUE
  /\ families = [f \in Families |-> "unused"] /\ sessions = <<>>
  /\ request = [r \in Requests |-> NoRequest]
  /\ minted = {} /\ ended = [f \in Families |-> Never]
  /\ since = [fact \in {"member", "active"} |-> Never]

At(r, step) == request[r].pc = step
Go(r, step) == request' = [request EXCEPT ![r] = IF step = "idle" THEN NoRequest ELSE [@ EXCEPT !.pc = step]]

-----------------------------------------------------------------------------
(* The identity database: one transaction each.                            *)

(* A session that refresh accepts at the time its handler began.           *)
Usable(s, at) ==
  /\ ~sessions[s].revoked
  /\ sessions[s].expires > at
  /\ families[sessions[s].family] = "open"

(* authenticate_operator_refresh, at the start of a refresh.               *)
Authenticate(r, s) ==
  /\ At(r, "idle") /\ Usable(s, now)
  /\ request' = [request EXCEPT ![r] = [pc |-> "tenant", kind |-> "refresh",
       family |-> sessions[s].family, session |-> s, at |-> now]]
  /\ UNCHANGED <<now, policy, store, minted>>

(* The credentials of a login have been verified.                          *)
Login(r) ==
  /\ At(r, "idle")
  /\ request' = [request EXCEPT ![r] = [NoRequest EXCEPT !.pc = "tenant", !.kind = "login", !.at = now]]
  /\ UNCHANGED <<now, policy, store, minted>>

NewSession(f, at) == [family |-> f, revoked |-> FALSE, expires |-> at + RefreshTtl]

(* issue_operator_refresh.                                                 *)
Issue(r, f) ==
  /\ At(r, "grant") /\ request[r].kind = "login"
  /\ families[f] = "unused" /\ Len(sessions) < MaxSessions
  /\ families' = [families EXCEPT ![f] = "open"]
  /\ sessions' = Append(sessions, NewSession(f, request[r].at))
  /\ request' = [request EXCEPT ![r].pc = "respond", ![r].family = f]
  /\ UNCHANGED <<now, policy, minted, ended>>

\* Variant: the predecessor is not checked again inside the transaction.
RotateUnchecked(r) ==
  /\ At(r, "grant") /\ request[r].kind = "refresh" /\ Len(sessions) < MaxSessions
  /\ families[request[r].family] = "open"
  /\ sessions' = Append([sessions EXCEPT ![request[r].session].revoked = TRUE],
                        NewSession(request[r].family, request[r].at))
  /\ Go(r, "respond")
  /\ UNCHANGED <<now, policy, families, minted, ended>>

(* rotate_operator_refresh: the predecessor is checked again and revoked.   *)
Rotate(r) ==
  /\ At(r, "grant") /\ request[r].kind = "refresh"
  /\ IF Usable(request[r].session, request[r].at)
     THEN /\ Len(sessions) < MaxSessions
          /\ sessions' = Append([sessions EXCEPT ![request[r].session].revoked = TRUE],
                                NewSession(request[r].family, request[r].at))
          /\ Go(r, "respond")
     ELSE sessions' = sessions /\ Go(r, "idle")     \* 401
  /\ UNCHANGED <<now, policy, families, minted, ended>>

(* revoke_refresh_family_in_tx: the tombstone and every linked session.     *)
RevokeFamily(f) ==
  /\ families' = [families EXCEPT ![f] = "revoked"]
  /\ ended' = [ended EXCEPT ![f] = IF @ = Never THEN now ELSE @]
  /\ sessions' = [s \in DOMAIN sessions |->
       IF sessions[s].family = f THEN [sessions[s] EXCEPT !.revoked = TRUE] ELSE sessions[s]]

-----------------------------------------------------------------------------
(* resolve_login and resolve_refresh_grant: three calls of the policy       *)
(* backend.                                                                 *)

Denied(r) == IF request[r].kind = "refresh" THEN "revoke" ELSE "idle"

Tenant(r) ==
  /\ At(r, "tenant") /\ Go(r, IF member THEN "status" ELSE Denied(r))
  /\ UNCHANGED <<now, policy, store, minted>>

Status(r) ==
  /\ At(r, "status") /\ Go(r, IF active THEN "role" ELSE Denied(r))
  /\ UNCHANGED <<now, policy, store, minted>>

RoleOf(r) ==
  /\ At(r, "role") /\ Go(r, IF member THEN "grant" ELSE Denied(r))
  /\ UNCHANGED <<now, policy, store, minted>>

(* The backend fails, or the caller goes away while the handler waits.      *)
Abandon(r) ==
  /\ request[r].pc \in {"tenant", "status", "role"} /\ Go(r, "idle")
  /\ UNCHANGED <<now, policy, store, minted>>

(* A refresh that is denied by policy ends the family.                      *)
Deny(r) ==
  /\ At(r, "revoke") /\ RevokeFamily(request[r].family) /\ Go(r, "idle")
  /\ UNCHANGED <<now, policy, minted>>

-----------------------------------------------------------------------------
(* session_response, and logout.                                           *)

Respond(r) ==
  /\ At(r, "respond") /\ Go(r, "idle")
  /\ minted' = minted \cup {[family |-> request[r].family, exp |-> request[r].at + AccessTtl]}
  /\ UNCHANGED <<now, policy, store>>

(* A token that cannot be signed takes its family with it.                  *)
SignFails(r) ==
  /\ At(r, "respond") /\ RevokeFamily(request[r].family) /\ Go(r, "idle")
  /\ UNCHANGED <<now, policy, minted>>

(* Any credential of the family will do, also one that was rotated away.    *)
Logout(s) ==
  /\ RevokeFamily(sessions[s].family)
  /\ UNCHANGED <<now, policy, request, minted>>

-----------------------------------------------------------------------------
(* The policy and the clock.                                               *)

Out(fact, value) == since' = [since EXCEPT ![fact] = IF value THEN Never ELSE now]

Membership ==
  /\ member' = ~member /\ Out("member", member')
  /\ UNCHANGED <<now, active, store, request, minted>>

OrgStatus ==
  /\ active' = ~active /\ Out("active", active')
  /\ UNCHANGED <<now, member, store, request, minted>>

Clock ==
  /\ now < MaxTime /\ now' = now + 1
  /\ UNCHANGED <<policy, store, request, minted>>

SessionsNext ==
  \/ \E r \in Requests :
       \/ Login(r) \/ (\E s \in DOMAIN sessions : Authenticate(r, s))
       \/ Tenant(r) \/ Status(r) \/ RoleOf(r) \/ Abandon(r) \/ Deny(r)
       \/ (\E f \in Families : Issue(r, f)) \/ Rotate(r)
       \/ Respond(r) \/ SignFails(r)
  \/ \E s \in DOMAIN sessions : Logout(s)
  \/ Membership \/ OrgStatus \/ Clock

SessionsSpec == SessionsInit /\ [][SessionsNext]_sessionVars

-----------------------------------------------------------------------------
(* Properties.                                                             *)

(* A family has at most one credential that can still be used, however many *)
(* refreshes of the same credential race.                                   *)
OneLive ==
  \A f \in Families :
    Cardinality({s \in DOMAIN sessions : sessions[s].family = f /\ ~sessions[s].revoked}) <= 1

(* A revoked family has no usable credential left, and a refresh that was   *)
(* under way when it was revoked does not give it a new one.                *)
TombstoneHolds ==
  \A s \in DOMAIN sessions : families[sessions[s].family] = "revoked" => sessions[s].revoked

(* Once a family has ended, no access token of it, one signed afterwards    *)
(* included, lives longer than the lifetime of an access token.             *)
AccessEnds ==
  \A t \in minted : ended[t.family] # Never => t.exp <= ended[t.family] + AccessTtl

(* The same of an operator who lost the membership, and of a suspended      *)
(* organisation, for as long as they stay out.                              *)
CutOff ==
  \A fact \in DOMAIN since : since[fact] # Never =>
    \A t \in minted : t.exp <= since[fact] + AccessTtl

(* What logout, a stolen credential or a loss of membership cuts off stays  *)
(* cut off.                                                                  *)
AccessSafety == OneLive /\ TombstoneHolds /\ AccessEnds /\ CutOff

-----------------------------------------------------------------------------
(* The inductive invariant behind AccessSafety.                            *)

Facts == {"member", "active"}
Handlers == [pc : {"idle", "tenant", "status", "role", "grant", "revoke", "respond"},
             kind : {"none", "login", "refresh"}, family : Families \cup {Never},
             session : Nat, at : Nat]

SessionsTypeOK ==
  /\ now \in Nat /\ member \in BOOLEAN /\ active \in BOOLEAN
  /\ families \in [Families -> {"unused", "open", "revoked"}]
  /\ sessions \in Seq([family : Families, revoked : BOOLEAN, expires : Nat])
  /\ request \in [Requests -> Handlers]
  /\ minted \subseteq [family : Families, exp : Nat]
  /\ ended \in [Families -> Nat \cup {Never}] /\ since \in [Facts -> Nat \cup {Never}]

(* The history of the model: what has ended is revoked, what is in has no   *)
(* end, and no end lies ahead.                                              *)
EndsKept ==
  /\ \A f \in Families : ended[f] # Never => families[f] = "revoked" /\ ended[f] <= now
  /\ \A f \in Families : families[f] = "revoked" => ended[f] # Never
  /\ since["member"] # Never <=> ~member
  /\ since["active"] # Never <=> ~active
  /\ \A fact \in Facts : since[fact] # Never => since[fact] <= now

(* The credentials: opened families only, one that is not revoked at most.  *)
CredentialsOK ==
  /\ \A s \in DOMAIN sessions : families[sessions[s].family] # "unused"
  /\ \A s, t \in DOMAIN sessions :
       (sessions[s].family = sessions[t].family /\ ~sessions[s].revoked /\ ~sessions[t].revoked) => s = t
  /\ TombstoneHolds

(* A handler began before whatever it has not noticed: the loss of the      *)
(* membership or of the organisation, or the end of the family.             *)
Began(q) ==
  /\ q.pc \in {"status", "role", "grant", "respond"} /\ since["member"] # Never => q.at <= since["member"]
  /\ q.pc \in {"role", "grant", "respond"} /\ since["active"] # Never => q.at <= since["active"]
  /\ q.pc = "respond" => /\ q.family \in Families /\ families[q.family] # "unused"
                         /\ ended[q.family] # Never => q.at <= ended[q.family]

HandlerOK(q) ==
  /\ q.at <= now /\ (q.pc = "revoke" => q.kind = "refresh")
  /\ q.kind = "refresh" => /\ q.session \in DOMAIN sessions
                           /\ q.family = sessions[q.session].family
  /\ Began(q)

AccessInv ==
  /\ SessionsTypeOK /\ EndsKept /\ CredentialsOK /\ \A r \in Requests : HandlerOK(request[r])
  /\ \A t \in minted : families[t.family] # "unused" /\ t.exp <= now + AccessTtl
  /\ AccessEnds /\ CutOff
=============================================================================
