--------------------------- MODULE GoogleAccounts ---------------------------
(***************************************************************************)
(* F.R.I.D.A.Y.'s access to Google Calendar and Gmail: the two clients     *)
(* with a token file, active scopes and a cached service each              *)
(* (src/friday/online/calendar.py, online/gmail.py), the credentials the   *)
(* tools use, kept in the keyring (security/google_auth.py), and the       *)
(* calendar event that a client creates, updates and verifies while others *)
(* edit it.                                                                *)
(*                                                                         *)
(* A token is [scopes, refresh, serial]; the accounts server knows which   *)
(* serials the user has not revoked.  Credentials in memory go with the    *)
(* process, the files and the keyring stay.                                *)
(***************************************************************************)
EXTENDS Naturals, FiniteSets

CONSTANTS NoToken,      \* no credentials
          MaxConsents,  \* bound: questions put to the user
          MaxLosses     \* bound: losses after which no token file is removed

Services == {"calendar", "gmail"}
Capabilities == {"read", "write"}
Tokens == [scopes : SUBSET Capabilities, refresh : BOOLEAN, serial : Nat]
NoTokenAssumption == NoToken \notin Tokens

Titles == {"old", "ours", "theirs"}

VARIABLES
  file,       \* file[s]: the token file of a client
  creds,      \* creds[s]: the client's credentials in memory
  active,     \* active[s]: its active scopes
  service,    \* service[s]: the credentials its cached service was built with
  keyring,    \* the tools' credentials
  live,       \* serials of the tokens that are not revoked
  fresh,      \* serials whose access token has not expired
  asked,      \* asked[s]: how often the user was asked for a consent
  losses,     \* history, losses[s]: how often the question failed, or the token was not
              \* saved, was lost, could not be refreshed or had no refresh token
  revoked,    \* the tools met a revoked grant and did not ask the user again
  event,      \* the event on the server: [title, start] or NoEvent
  draft       \* the event as update_event read it, or NoEvent

accounts == <<file, creds, active, service, keyring, live, fresh, asked, losses, revoked>>
calendar == <<event, draft>>
vars == <<accounts, calendar>>

NoEvent == [title |-> "none", start |-> "none"]
Stores == Services \union {"tools"}

Init ==
  /\ file = [s \in Services |-> NoToken]
  /\ creds = [s \in Services |-> NoToken]
  /\ active = [s \in Services |-> {}]
  /\ service = [s \in Services |-> NoToken]
  /\ keyring = NoToken
  /\ live = {} /\ fresh = {}
  /\ asked = [s \in Stores |-> 0] /\ losses = [s \in Stores |-> 0]
  /\ revoked = FALSE
  /\ event = NoEvent /\ draft = NoEvent

Consents == asked["calendar"] + asked["gmail"] + asked["tools"]

\* A token the user grants: Google leaves out the refresh token at times.
Granted(s, scopes, refresh) == [scopes |-> scopes, refresh |-> refresh, serial |-> Consents + 1]

\* Every capability has a scope of its own here; _get_scopes_for_capabilities
\* maps both services' capabilities to two: read-only and the rest.
Covers(token, caps) == IF token = NoToken THEN FALSE ELSE caps \subseteq token.scopes
Usable(token, caps) == Covers(token, caps) /\ token.serial \in fresh
Refreshable(token) == IF token = NoToken THEN FALSE ELSE token.refresh

(***************************************************************************)
(* authenticate of a client.                                               *)
(***************************************************************************)

\* The stored token has not expired and covers the capabilities.
Reuses(s, caps) ==
  /\ Usable(file[s], caps)
  /\ creds' = [creds EXCEPT ![s] = file[s]]
  /\ active' = [active EXCEPT ![s] = caps]
  /\ UNCHANGED <<file, service, keyring, live, fresh, asked, losses, revoked, calendar>>

\* Otherwise a refresh token is enough: the Credentials object is made without
\* an expiry, so that it never looks expired, nothing is refreshed or saved, and
\* the capabilities become active whatever the token covers.
TrustsRefreshToken(s, caps) ==
  /\ Refreshable(file[s]) /\ ~Usable(file[s], caps)
  /\ creds' = [creds EXCEPT ![s] = file[s]]
  /\ active' = [active EXCEPT ![s] = caps]
  /\ UNCHANGED <<file, service, keyring, live, fresh, asked, losses, revoked, calendar>>

MustAsk(s, caps) ==
  Consents < MaxConsents /\ ~Refreshable(file[s]) /\ ~Usable(file[s], caps)

\* Mutant: what the user grants is not saved.
AsksUserUnsaved(s, caps, refresh) ==
  /\ MustAsk(s, caps)
  /\ LET token == Granted(s, caps, refresh)
     IN  /\ creds' = [creds EXCEPT ![s] = token]
         /\ UNCHANGED file
         /\ live' = live \union {token.serial} /\ fresh' = fresh \union {token.serial}
  /\ active' = [active EXCEPT ![s] = caps]
  /\ asked' = [asked EXCEPT ![s] = @ + 1]
  /\ losses' = [losses EXCEPT ![s] = IF refresh THEN @ ELSE @ + 1]
  /\ UNCHANGED <<service, keyring, revoked, calendar>>

\* The browser flow: the user grants the scopes, and the token is saved.  Saving may
\* raise, before the file is opened or after that emptied it; then the token is only
\* in memory and the scopes do not become active.
AsksUser(s, caps, refresh) ==
  /\ MustAsk(s, caps)
  /\ LET token == Granted(s, caps, refresh)
     IN  /\ creds' = [creds EXCEPT ![s] = token]
         /\ live' = live \union {token.serial} /\ fresh' = fresh \union {token.serial}
         /\ \E kept \in {token, NoToken, file[s]} :
              /\ file' = [file EXCEPT ![s] = kept]
              /\ active' = IF kept = token THEN [active EXCEPT ![s] = caps] ELSE active
              /\ losses' = [losses EXCEPT ![s] = IF kept = token /\ refresh THEN @ ELSE @ + 1]
  /\ asked' = [asked EXCEPT ![s] = @ + 1]
  /\ UNCHANGED <<service, keyring, revoked, calendar>>

\* The flow raises: the user declines or closes the browser, or there is no network.
UserDeclines(s, caps) ==
  /\ MustAsk(s, caps)
  /\ creds' = [creds EXCEPT ![s] = file[s]]
  /\ asked' = [asked EXCEPT ![s] = @ + 1] /\ losses' = [losses EXCEPT ![s] = @ + 1]
  /\ UNCHANGED <<file, active, service, keyring, live, fresh, revoked, calendar>>

Authenticate(s, caps) ==
  \/ Reuses(s, caps)
  \/ TrustsRefreshToken(s, caps)
  \/ \E refresh \in BOOLEAN : AsksUser(s, caps, refresh)
  \/ UserDeclines(s, caps)

CalendarAuthenticate(caps) == Authenticate("calendar", caps)
GmailAuthenticate(caps) == Authenticate("gmail", caps)

(***************************************************************************)
(* Calls of a client.                                                      *)
(***************************************************************************)

\* _ensure_scope, before anything is sent.
EnsureScope(s, cap) == cap \in active[s]

\* _get_service builds the service once, with the credentials of that time.
ServiceOf(s) == IF service[s] = NoToken THEN creds[s] ELSE service[s]

\* The server accepts a token that is not revoked and covers the capability;
\* the scope for writing covers reading.
Accepts(token, cap) ==
  /\ Covers(token, {cap}) \/ Covers(token, {"write"})
  /\ token.serial \in live

Works(s, cap) == EnsureScope(s, cap) /\ Accepts(ServiceOf(s), cap)

Call(s, cap) ==
  /\ service' = IF EnsureScope(s, cap) THEN [service EXCEPT ![s] = ServiceOf(s)] ELSE service
  /\ UNCHANGED <<file, creds, active, keyring, live, fresh, asked, losses, revoked>>

\* Lists, searches and gets of both services, and Gmail's drafts, messages,
\* labels and trash, of which only the access matters here.
CalendarReads == Call("calendar", "read") /\ UNCHANGED calendar
GmailReads == Call("gmail", "read") /\ UNCHANGED calendar
GmailWrites == Call("gmail", "write") /\ UNCHANGED calendar

CreateEvent ==
  /\ event = NoEvent
  /\ Call("calendar", "write")
  /\ event' = IF Works("calendar", "write") THEN [title |-> "old", start |-> "old"] ELSE event
  /\ UNCHANGED draft

\* update_event gets the event and, later, puts all of it back.
UpdateGets ==
  /\ event # NoEvent /\ draft = NoEvent
  /\ Call("calendar", "write")
  /\ draft' = IF Works("calendar", "write") THEN event ELSE draft
  /\ UNCHANGED event

UpdatePuts ==
  /\ draft # NoEvent
  /\ Call("calendar", "write")
  /\ event' = IF Works("calendar", "write") /\ event # NoEvent THEN [draft EXCEPT !.title = "ours"] ELSE event
  /\ draft' = NoEvent

DeleteEvent ==
  /\ draft = NoEvent
  /\ Call("calendar", "write")
  /\ event' = IF Works("calendar", "write") THEN NoEvent ELSE event
  /\ UNCHANGED draft

\* verify_event_created and verify_event_updated read the event again, for
\* which the capability to write it is not enough.
VerifyEvent == draft = NoEvent /\ Call("calendar", "read") /\ UNCHANGED calendar

\* The user, or somebody the calendar is shared with, edits the event.
OthersEdit ==
  /\ event # NoEvent
  /\ event' = [event EXCEPT !.start = "theirs"]
  /\ UNCHANGED <<accounts, draft>>

(***************************************************************************)
(* get_credentials of the tools.                                           *)
(***************************************************************************)

\* A valid token is used as it is.
ToolsReuse ==
  /\ Usable(keyring, {})
  /\ UNCHANGED <<accounts, calendar>>

\* An expired one is refreshed and stored again, which may fail.  A refused refresh
\* is an exception that the listed ones do not include, and leaves get_credentials.
ToolsRefresh ==
  /\ Refreshable(keyring) /\ ~Usable(keyring, {})
  /\ IF keyring.serial \in live
     THEN fresh' \in {fresh, fresh \union {keyring.serial}} /\ UNCHANGED revoked
     ELSE revoked' = TRUE /\ UNCHANGED fresh
  /\ UNCHANGED <<file, creds, active, service, keyring, live, asked, losses, calendar>>

\* Without a token that can be refreshed, or after a refresh that failed with one of
\* the listed exceptions, the user is asked; the scopes are read-only ones, whatever
\* tool asks.  Storing the answer may fail.
ToolsMustAsk == Consents < MaxConsents /\ ~Usable(keyring, {})

ToolsAskUser(refresh) ==
  /\ ToolsMustAsk
  /\ LET token == Granted("tools", {"read"}, refresh)
     IN  /\ live' = live \union {token.serial} /\ fresh' = fresh \union {token.serial}
         /\ \E kept \in {token, keyring} :
              /\ keyring' = kept
              /\ losses' = [losses EXCEPT !["tools"] = @ + (IF kept = token /\ refresh THEN 0 ELSE 1)
                                                        + (IF Refreshable(keyring) THEN 1 ELSE 0)]
  /\ asked' = [asked EXCEPT !["tools"] = @ + 1]
  /\ UNCHANGED <<file, creds, active, service, revoked, calendar>>

ToolsDecline ==
  /\ ToolsMustAsk
  /\ asked' = [asked EXCEPT !["tools"] = @ + 1] /\ losses' = [losses EXCEPT !["tools"] = @ + 1]
  /\ UNCHANGED <<file, creds, active, service, keyring, live, fresh, revoked, calendar>>

GetCredentials ==
  ToolsReuse \/ ToolsRefresh \/ ToolsDecline \/ \E refresh \in BOOLEAN : ToolsAskUser(refresh)

(***************************************************************************)
(* The world.                                                              *)
(***************************************************************************)

Expires(n) ==
  /\ n \in fresh
  /\ fresh' = fresh \ {n}
  /\ UNCHANGED <<file, creds, active, service, keyring, live, asked, losses, revoked, calendar>>

\* The user revokes a grant (its access tokens end with it).
Revokes(n) ==
  /\ n \in live
  /\ live' = live \ {n} /\ fresh' = fresh \ {n}
  /\ UNCHANGED <<file, creds, active, service, keyring, asked, losses, revoked, calendar>>

\* A token file or the keyring entry is removed, or cannot be read any more.
LosesToken(s) ==
  /\ losses[s] < MaxLosses
  /\ IF s = "tools" THEN keyring # NoToken /\ keyring' = NoToken /\ UNCHANGED file
     ELSE file[s] # NoToken /\ file' = [file EXCEPT ![s] = NoToken] /\ UNCHANGED keyring
  /\ losses' = [losses EXCEPT ![s] = @ + 1]
  /\ UNCHANGED <<creds, active, service, live, fresh, asked, revoked, calendar>>

Restarts ==
  /\ \E s \in Services : creds[s] # NoToken
  /\ creds' = [s \in Services |-> NoToken] /\ service' = [s \in Services |-> NoToken]
  /\ active' = [s \in Services |-> {}]
  /\ draft' = NoEvent
  /\ UNCHANGED <<file, keyring, live, fresh, asked, losses, revoked, event>>

Next ==
  \/ \E caps \in (SUBSET Capabilities) \ {{}} : CalendarAuthenticate(caps) \/ GmailAuthenticate(caps)
  \/ CalendarReads \/ GmailReads \/ GmailWrites
  \/ CreateEvent \/ UpdateGets \/ UpdatePuts \/ DeleteEvent \/ VerifyEvent \/ OthersEdit
  \/ GetCredentials
  \/ \E n \in 1 .. MaxConsents : Expires(n) \/ Revokes(n)
  \/ \E s \in Stores : LosesToken(s)
  \/ Restarts

Spec == Init /\ [][Next]_vars

(***************************************************************************)
(* Properties.                                                             *)
(***************************************************************************)

\* Every variable keeps its type (the two clients, get_credentials).
TypeOK ==
  LET Token == Tokens \union {NoToken}
  IN  /\ file \in [Services -> Token] /\ creds \in [Services -> Token]
      /\ service \in [Services -> Token] /\ keyring \in Token
      /\ active \in [Services -> SUBSET Capabilities]
      /\ live \subseteq 1 .. MaxConsents /\ fresh \subseteq live
      /\ asked \in [Stores -> 0 .. MaxConsents]
      /\ event.title \in Titles \union {"none"} /\ draft.title \in Titles \union {"none"}

\* The user is asked for a consent once, and once more for each question that failed
\* and each token that was not saved, was lost, could not be refreshed or came without
\* a refresh token: a restart, an expiry or another capability asked for does not
\* open the browser again (authenticate, _save_credentials, get_credentials).
ConsentIsKept == \A s \in Stores : asked[s] <= 1 + losses[s]

\* What google_auth.py says of a refresh that fails: "Token expired or scope
\* mismatch - force re-auth".  A tool that meets a revoked grant asks the user.
ReauthIsForced == ~revoked

\* What keeps it so: only a store without a token that can be refreshed has spent
\* every consent it was given.
Stored(s) == IF s = "tools" THEN keyring ELSE file[s]
ConsentInv ==
  /\ file \in [Services -> Tokens \union {NoToken}] /\ keyring \in Tokens \union {NoToken}
  /\ asked \in [Stores -> Nat] /\ losses \in [Stores -> Nat]
  /\ \A s \in Stores : asked[s] <= losses[s] + (IF Refreshable(Stored(s)) THEN 1 ELSE 0)

=============================================================================
