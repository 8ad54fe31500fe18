---------------------------- MODULE RefreshSessions ----------------------------
(***************************************************************************)
(* The refresh sessions of one user, AuthService: one per device, each with*)
(* a token that is exchanged for the next one.  The tabs of a browser share*)
(* the session's cookie and may refresh at the same time; requests and     *)
(* answers pass each other; logins, logouts and the withdrawal of other    *)
(* devices write the same two documents.  A token is known by its number.  *)
(* Not here: a user's suspension by an admin, which deletes the tokens     *)
(* alone and has the access check refuse by a time of its own.             *)
(***************************************************************************)
EXTENDS Naturals, FiniteSets

CONSTANTS
  Sids,        \* logins, each of which starts a session of its own
  MaxSessions, \* REFRESH_SESSION_MAX_COUNT
  MaxToken     \* bound: how often a session's token is exchanged

ASSUME SessionAssumption == MaxSessions \in Nat \ {0} /\ MaxToken \in Nat \ {0}

VARIABLES
  sessions,  \* the refreshTokens document: the sessions' records
  active,    \* the user document's activeSessionIds
  begun,     \* the logins made so far
  browser,   \* browser[s]: the cookie, and whether its access token expired
  asking,    \* asking[s]: the tokens in refresh requests under way
  answers,   \* answers[s]: the tokens in answers under way
  alarm      \* whether a refresh was taken for the reuse of an old token

accountVars == <<sessions, active, begun>>
deviceVars == <<browser, asking, answers>>
sessionVars == <<accountVars, deviceVars, alarm>>

NoSession == [token |-> 0, rotated |-> "never"]
Live == {s \in Sids : sessions[s].token # 0}

(* writeSessionsInTransaction: the document and the user's list together.  *)
LoginListedAlone(s, kept) == {s}
ListedIds(s, kept) == kept \union {s}

(* addRefreshSession evicts the sessions that were used least recently;    *)
(* here it is any of the others.                                           *)
KeptAll == {Live}
Kept == {kept \in SUBSET Live :
           Cardinality(kept) = IF Cardinality(Live) < MaxSessions THEN Cardinality(Live)
                               ELSE MaxSessions - 1}

IssueTokens(s) ==
  /\ s \notin begun
  /\ begun' = begun \union {s}
  /\ \E kept \in Kept :
       /\ sessions' = [t \in Sids |-> IF t = s THEN [token |-> 1, rotated |-> "never"]
                                      ELSE IF t \in kept THEN sessions[t] ELSE NoSession]
       /\ active' = ListedIds(s, kept)
  /\ browser' = [browser EXCEPT ![s] = [cookie |-> 1, access |-> "valid"]]
  /\ UNCHANGED <<asking, answers, alarm>>

Logout(s) ==
  /\ s \in begun
  /\ sessions' = [sessions EXCEPT ![s] = NoSession]
  /\ active' = Live \ {s}
  /\ UNCHANGED <<begun, deviceVars, alarm>>

(* Withdrawal, and the logout of a token without a session. *)
RevokeAllSessions ==
  /\ sessions' = [s \in Sids |-> NoSession] /\ active' = {}
  /\ UNCHANGED begun
-------------------------------------------------------------------------------
(* One refresh; presented is the token the request carries. *)

Rotated(token) == [token |-> token + 1, rotated |-> "recently"]

Issue(s, token) == answers' = [answers EXCEPT ![s] = @ \union {token}]

CurrentOrGone(s, presented) == sessions[s].token \in {0, presented}
IsCurrent(s, presented) == sessions[s].token = presented

(* rotationGraceRefreshToken *)
NoGrace(s, presented) == FALSE
InGrace(s, presented) ==
  presented + 1 = sessions[s].token /\ sessions[s].rotated = "recently"

Refresh(s, presented) ==
  /\ presented \in asking[s]
  /\ \/ /\ s \notin Live
        /\ UNCHANGED <<accountVars, answers, alarm>>
     \/ /\ IsCurrent(s, presented) /\ presented < MaxToken
        /\ sessions' = [sessions EXCEPT ![s] = Rotated(presented)]
        /\ Issue(s, presented + 1)
        /\ UNCHANGED <<active, begun, alarm>>
     \/ /\ s \in Live /\ ~IsCurrent(s, presented)
        /\ IF InGrace(s, presented)
           THEN Issue(s, sessions[s].token) /\ UNCHANGED <<accountVars, alarm>>
           ELSE RevokeAllSessions /\ alarm' = "raised" /\ UNCHANGED answers
  \* another tab may be waiting with the same token
  /\ asking' \in {asking, [asking EXCEPT ![s] = @ \ {presented}]}
  /\ UNCHANGED browser
-------------------------------------------------------------------------------
(* The browser: its tabs refresh when the access token expired.            *)

Ask(s) ==
  /\ s \in begun /\ browser[s].access = "expired"
  /\ asking' = [asking EXCEPT ![s] = @ \union {browser[s].cookie}]
  /\ UNCHANGED <<accountVars, browser, answers, alarm>>

TakeAnswer(s) ==
  /\ \E token \in answers[s] :
       /\ browser' = [browser EXCEPT ![s] = [cookie |-> token, access |-> "valid"]]
       /\ answers' \in {answers, [answers EXCEPT ![s] = @ \ {token}]}
  /\ UNCHANGED <<accountVars, asking, alarm>>

LoseAnswer(s) ==
  /\ \E token \in answers[s] : answers' = [answers EXCEPT ![s] = @ \ {token}]
  /\ UNCHANGED <<accountVars, browser, asking, alarm>>

(* An access token is valid for an hour, the grace period is a minute.     *)
(* Within that minute requests and answers arrive or get lost, and a tab   *)
(* that lost its answer asks again: a rotation that no answer ever brought *)
(* to the browser is taken for a reuse later, as intended.                 *)
TabsAreServed(s) ==
  asking[s] = {} /\ answers[s] = {} /\ browser[s].cookie = sessions[s].token

AccessExpires(s) ==
  /\ s \in Live /\ browser[s].access = "valid" /\ TabsAreServed(s)
  /\ browser' = [browser EXCEPT ![s].access = "expired"]
  /\ sessions' = [sessions EXCEPT ![s].rotated = "never"]
  /\ UNCHANGED <<active, begun, asking, answers, alarm>>
-------------------------------------------------------------------------------
SessionInit ==
  /\ sessions = [s \in Sids |-> NoSession] /\ active = {} /\ begun = {}
  /\ browser = [s \in Sids |-> [cookie |-> 0, access |-> "valid"]]
  /\ asking = [s \in Sids |-> {}] /\ answers = [s \in Sids |-> {}]
  /\ alarm = "none"

SessionNext ==
  \/ \E s \in Sids :
       \/ IssueTokens(s) \/ Logout(s) \/ Ask(s) \/ TakeAnswer(s) \/ LoseAnswer(s) \/ AccessExpires(s)
       \/ \E presented \in 1..MaxToken : Refresh(s, presented)
  \/ RevokeAllSessions /\ UNCHANGED <<deviceVars, alarm>>

SessionSpec == SessionInit /\ [][SessionNext]_sessionVars
-------------------------------------------------------------------------------
(* The documents, requests and answers keep their types, and no user has   *)
(* more sessions than allowed.                                             *)
SessionTypeOK ==
  /\ sessions \in [Sids -> [token : 0..MaxToken, rotated : {"never", "recently"}]]
  /\ active \subseteq Sids /\ begun \subseteq Sids
  /\ browser \in [Sids -> [cookie : 0..MaxToken, access : {"valid", "expired"}]]
  /\ asking \in [Sids -> SUBSET (0..MaxToken)] /\ answers \in [Sids -> SUBSET (0..MaxToken)]
  /\ alarm \in {"none", "raised"}
  /\ Cardinality(Live) <= MaxSessions

(* A session that ended never comes back, not even through a refresh that  *)
(* was under way when the device logged out or was evicted; and logins,    *)
(* refreshes, log-outs and revocations keep the two documents in agreement,*)
(* so that its access token ends with it, while a device that can refresh  *)
(* its session is let in.                                                  *)
EndedSessionsStayEnded ==
  [][/\ active' = Live'
     /\ \A s \in begun : sessions[s].token = 0 => sessions'[s].token = 0]_sessionVars

(* Tabs that refresh at the same time, and answers that get lost or pass   *)
(* each other, never look like the reuse of a stolen token, which would    *)
(* log the user out everywhere.                                            *)
HonestTabsRaiseNoAlarm == alarm = "none"
===============================================================================
