---------------------------- MODULE OmnetSession ----------------------------
(***************************************************************************)
(* OmnetSession: one login at the OMnet gateway, owned by one thread.      *)
(*                                                                         *)
(* The code keeps _loggedIn and the API handle _hSession; the gateway      *)
(* keeps its own idea of the session, link, and the password of the user.  *)
(* The two sides drift apart: a session may die at the gateway long before *)
(* a call of the code finds out.                                           *)
(*                                                                         *)
(* OMNIAPI_INTFAILURE and OMNIAPI_NOTCONNECTED are handled alike by every  *)
(* caller and are one status here.                                         *)
(***************************************************************************)
EXTENDS Integers

CONSTANTS
  Sessions,      \* the sessions of the handler
  HasNewPassword \* whether OSE.NewPassword is configured

VARIABLES
  link,      \* the gateway's side: "up", "down" (connection lost), or "out"
             \* (connected, but logged out by the gateway)
  loggedIn,  \* _loggedIn
  handle,    \* whether _hSession holds an API session
  leaked,    \* API sessions overwritten in _hSession without being closed
  deaths,    \* how often the session was found dead
  password   \* the gateway's view of the configured password: "valid",
             \* "expired", or "replaced" by the new one

sessVars == <<link, loggedIn, handle, leaked, deaths, password>>

SessTypeOK ==
  /\ link \in [Sessions -> {"up", "down", "out"}]
  /\ loggedIn \in [Sessions -> BOOLEAN]
  /\ handle \in [Sessions -> BOOLEAN]
  /\ leaked \in [Sessions -> Nat]
  /\ deaths \in [Sessions -> Nat]
  /\ password \in [Sessions -> {"valid", "expired", "replaced"}]

SessInit ==
  /\ link = [s \in Sessions |-> "down"]
  /\ loggedIn = [s \in Sessions |-> FALSE]
  /\ handle = [s \in Sessions |-> FALSE]
  /\ leaked = [s \in Sessions |-> 0]
  /\ deaths = [s \in Sessions |-> 0]
  /\ password = [s \in Sessions |-> "valid"]

\* Mutant of Overwrite: an API session is lost with every login.
MutOverwrite(s) == leaked' = [leaked EXCEPT ![s] = @ + 1]

\* Login() overwrites _hSession with a fresh API session.
Overwrite(s) == leaked' = [leaked EXCEPT ![s] = @ + IF handle[s] THEN 1 ELSE 0]

\* Login() returning true: accepted as it is, or after the expired password
\* was replaced by the configured new one.
LoginSucceeds(s) ==
  /\ \/ /\ password[s] = "valid"
        /\ UNCHANGED password
     \/ /\ password[s] = "expired" /\ HasNewPassword
        /\ password' = [password EXCEPT ![s] = "replaced"]
  /\ Overwrite(s)
  /\ handle' = [handle EXCEPT ![s] = TRUE]
  /\ loggedIn' = [loggedIn EXCEPT ![s] = TRUE]
  /\ link' = [link EXCEPT ![s] = "up"]
  /\ UNCHANGED deaths

\* Login() returning false: the API gave no session, or the gateway refused
\* the login or the password change and the fresh session is closed.  Where
\* the session was logged in before, _loggedIn keeps its value.
LoginFails(s) ==
  /\ Overwrite(s)
  /\ handle' = [handle EXCEPT ![s] = FALSE]
  /\ UNCHANGED <<loggedIn, link, deaths, password>>

\* Mutant of Logout: a session whose handle is gone still counts as logged in.
MutLogout(s) ==
  IF loggedIn[s] /\ handle[s]
  THEN /\ handle' = [handle EXCEPT ![s] = FALSE]
       /\ link' = [link EXCEPT ![s] = "down"]
       /\ UNCHANGED <<loggedIn, leaked, deaths, password>>
  ELSE UNCHANGED sessVars

\* Logout() does nothing to a session that is not logged in.
Logout(s) ==
  IF loggedIn[s] /\ handle[s]
  THEN /\ handle' = [handle EXCEPT ![s] = FALSE]
       /\ loggedIn' = [loggedIn EXCEPT ![s] = FALSE]
       /\ link' = [link EXCEPT ![s] = "down"]
       /\ UNCHANGED <<leaked, deaths, password>>
  ELSE UNCHANGED sessVars

\* MarkDead(), and the end of a SendTransaction that failed with INTFAILURE.
MarkDead(s) ==
  /\ loggedIn' = [loggedIn EXCEPT ![s] = FALSE]
  /\ deaths' = [deaths EXCEPT ![s] = @ + IF loggedIn[s] THEN 1 ELSE 0]
  /\ UNCHANGED <<link, handle, leaked, password>>

\* The status of a call that cannot reach the gateway.
DeadStatus(s) ==
  IF loggedIn[s] /\ link[s] = "down" THEN "INTFAILURE" ELSE "NOT_LOGGED_IN"

Connected(s) == loggedIn[s] /\ link[s] = "up"

\* What a failing SendTransaction does to the session: NOT_LOGGED_IN leaves
\* _loggedIn as it is.
TxFailed(s, status) ==
  IF status = "INTFAILURE" THEN MarkDead(s) ELSE UNCHANGED sessVars

-----------------------------------------------------------------------------
(* The gateway. *)

LinkLost(s, how) ==
  /\ link[s] = "up"
  /\ link' = [link EXCEPT ![s] = how]
  /\ UNCHANGED <<loggedIn, handle, leaked, deaths, password>>

PasswordExpires(s) ==
  /\ password[s] = "valid"
  /\ password' = [password EXCEPT ![s] = "expired"]
  /\ UNCHANGED <<link, loggedIn, handle, leaked, deaths>>

-----------------------------------------------------------------------------
(* Properties *)

\* Logout() skips a session that was marked dead, so Login() overwrites its
\* handle: every session found dead costs one API session that is never
\* closed, and nothing else does.
LeakPerDeath ==
  \A s \in Sessions :
    leaked[s] + (IF handle[s] /\ ~loggedIn[s] THEN 1 ELSE 0) = deaths[s]

\* A session is logged in only through an open API session.
LoggedInHasHandle == \A s \in Sessions : loggedIn[s] => handle[s]
=============================================================================
