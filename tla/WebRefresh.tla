------------------------------- MODULE WebRefresh -------------------------------
(***************************************************************************)
(* The tabs of one browser that share the cookies of one web session, each *)
(* restoring it when its access token has expired: the customer app        *)
(* (WebApp/src/api/client.ts, recoverSession, under a Web Lock where the   *)
(* browser has them) or the staff console (AdminDashboard/src/api.ts,      *)
(* restore, without one).                                                  *)
(* A request carries the cookies of the jar at the moment it is sent; the  *)
(* server handles it (SessionRows); the reply sets cookies on arrival.     *)
(***************************************************************************)
EXTENDS SessionRows

CONSTANTS Tabs,
          Client,  \* "app" or "console": the program the tabs run
          WebLocks \* whether the browser has navigator.locks

ASSUME ClientAssumption == Client \in {"app", "console"} /\ WebLocks \in BOOLEAN

VARIABLES row,    \* the session at the server
          jar,    \* the cookies: [access, refresh]
          tab,    \* per tab: stage, CSRF value held in memory, result of the last restoration
          wire,   \* per tab: the request in flight and its answer
          lock    \* the tabs that hold navigator.locks "qpf-refresh"

refreshVars == <<row, jar, tab, wire, lock>>

Stages  == {"idle", "waiting", "me", "confirm", "csrf", "refresh"}
Replies == {"pending", "ok", "refused"}
NoCall  == [stage |-> "idle", access |-> 0, refresh |-> 0, csrf |-> 0, answer |-> "pending", value |-> 0]
Call    == [stage : Stages \ {"waiting"}, access : 0..MaxIssued, refresh : 0..MaxIssued,
            csrf : 0..MaxIssued, answer : Replies, value : 0..MaxIssued]

RefreshTypeOK == /\ row \in SessionRow
                 /\ jar \in [access : 0..MaxIssued, refresh : 0..MaxIssued]
                 /\ tab \in [Tabs -> [stage : Stages, csrf : 0..MaxIssued, result : {"in", "out"}]]
                 /\ wire \in [Tabs -> Call]
                 /\ lock \subseteq Tabs

(* Signed in by one tab; the others were opened beside it.                 *)
RefreshInit == /\ row = NewSession
               /\ jar = [access |-> 1, refresh |-> 1]
               /\ tab = [t \in Tabs |-> [stage |-> "idle", csrf |-> 1, result |-> "in"]]
               /\ wire = [t \in Tabs |-> NoCall]
               /\ lock = {}

-----------------------------------------------------------------------------
(* What each program asks next.  The app tries the session first, for      *)
(* another tab may have renewed it; the console reads the CSRF value first.*)
First == IF Client = "app" THEN "me" ELSE "csrf"

Following_Silent(stage, ok) ==   \* mutant: a session another tab renewed is taken as it is
  IF stage = "me" /\ ok THEN "idle"
  ELSE CASE stage = "me"            -> IF Client = "app" THEN "csrf" ELSE "refresh"
         [] stage = "csrf" /\ ok    -> IF Client = "app" THEN "refresh" ELSE "me"
         [] stage = "refresh" /\ ok -> IF Client = "app" THEN "idle" ELSE "confirm"
         [] OTHER                   -> "idle"

Following_Retries(stage, ok) ==   \* mutant: a refused CSRF read is tried again from the start
  CASE stage = "me" /\ ok      -> IF Client = "app" THEN "confirm" ELSE "idle"
    [] stage = "me" /\ ~ok     -> IF Client = "app" THEN "csrf" ELSE "refresh"
    [] stage = "csrf" /\ ok    -> IF Client = "app" THEN "refresh" ELSE "me"
    [] stage = "csrf" /\ ~ok   -> First
    [] stage = "refresh" /\ ok -> IF Client = "app" THEN "idle" ELSE "confirm"
    [] stage = "confirm" /\ ~ok /\ Client = "app" -> "csrf"
    [] OTHER                   -> "idle"

(* The app takes a refused confirmation as it takes a refused session: it  *)
(* reads the CSRF value and refreshes.                                     *)
Following(stage, ok) ==
  CASE stage = "me" /\ ok      -> IF Client = "app" THEN "confirm" ELSE "idle"
    [] stage = "me" /\ ~ok     -> IF Client = "app" THEN "csrf" ELSE "refresh"
    [] stage = "csrf" /\ ok    -> IF Client = "app" THEN "refresh" ELSE "me"
    [] stage = "refresh" /\ ok -> IF Client = "app" THEN "idle" ELSE "confirm"
    [] stage = "confirm" /\ ~ok /\ Client = "app" -> "csrf"
    [] OTHER                   -> "idle"

Succeeds(stage, ok) == ok /\ Following(stage, ok) = "idle"

FreeToStart_Always(t) == TRUE   \* mutant: each tab on its own

(* The app's restorations of all tabs take turns, unless the browser has   *)
(* no locks; the console's do not.                                         *)
TakesTurns == Client = "app" /\ WebLocks

FreeToStart(t) == TakesTurns => lock = {}

Release(t) == lock' = lock \ {t}

-----------------------------------------------------------------------------
(* recoverSession after a 401 or on load; restore on load.  Calls of one   *)
(* tab share a promise, so a tab restores once at a time.                  *)
Restore(t) ==
  /\ tab[t].stage = "idle"
  /\ tab' = [tab EXCEPT ![t].stage = "waiting"]
  /\ UNCHANGED <<row, jar, wire, lock>>

Begin(t) ==
  /\ tab[t].stage = "waiting"
  /\ FreeToStart(t)
  /\ tab' = [tab EXCEPT ![t].stage = First]
  /\ lock' = IF TakesTurns THEN lock \cup {t} ELSE lock
  /\ UNCHANGED <<row, jar, wire>>

(* fetch with credentials: "include" attaches the cookies of the jar.      *)
Send(t) ==
  /\ tab[t].stage \notin {"idle", "waiting"}
  /\ wire[t] = NoCall
  /\ wire' = [wire EXCEPT ![t] = [NoCall EXCEPT !.stage = tab[t].stage, !.access = jar.access,
                                    !.refresh = jar.refresh, !.csrf = tab[t].csrf]]
  /\ UNCHANGED <<row, jar, tab, lock>>

AsksMe(call) == call.stage = "me" \/ (call.stage = "confirm" /\ Client = "console")

(* The server: GET /auth/me, GET /auth/csrf, POST /auth/refresh.           *)
Serve(t) ==
  LET call == wire[t]
      Answer(ok, value) ==
        wire' = [wire EXCEPT ![t].answer = IF ok THEN "ok" ELSE "refused", ![t].value = value]
  IN /\ call # NoCall /\ call.answer = "pending"
     /\ \/ /\ AsksMe(call)
           /\ Answer(Opens(row, call.access), 0)
           /\ UNCHANGED row
        \/ /\ call.stage = "csrf" \/ (call.stage = "confirm" /\ Client = "app")
           /\ Answer(MayReadCSRF(row, call.refresh), IF MayReadCSRF(row, call.refresh) THEN row.issued ELSE 0)
           /\ UNCHANGED row
        \/ /\ call.stage = "refresh"
           /\ row.issued < MaxIssued
           /\ row' = Refreshed(row, call.refresh, call.csrf)
           /\ Answer(Renews(row, call.refresh, call.csrf), row'.issued)
     /\ UNCHANGED <<jar, tab, lock>>

(* The reply arrives: cookies are set, the CSRF value is kept and the      *)
(* program goes on.  After a refused refresh the restoration is over, and  *)
(* after a refused CSRF read that was no confirmation.                     *)
Receive(t) ==
  LET call == wire[t]
      ok   == call.answer = "ok"
      next == Following(call.stage, ok)
  IN /\ call.answer \in {"ok", "refused"}
     /\ wire' = [wire EXCEPT ![t] = NoCall]
     /\ jar' = IF call.stage = "refresh" /\ ok THEN [access |-> call.value, refresh |-> call.value] ELSE jar
     /\ tab' = [tab EXCEPT ![t].stage = next,
                           ![t].csrf = IF ok /\ ~AsksMe(call) THEN call.value ELSE @,
                           ![t].result = IF next # "idle" THEN @
                                         ELSE IF Succeeds(call.stage, ok) THEN "in" ELSE "out"]
     /\ IF next = "idle" THEN Release(t) ELSE UNCHANGED lock
     /\ UNCHANGED row

(* The reply or the request is lost, the call times out, or the tab is     *)
(* closed or reloaded.  An abandoned request the server has not handled is *)
(* cancelled: the browser resets the stream and the handler's transaction  *)
(* runs under the context of the request.                                  *)
Abandon(t) ==
  /\ wire[t] # NoCall
  /\ wire' = [wire EXCEPT ![t] = NoCall]
  /\ tab' = [tab EXCEPT ![t].stage = "idle", ![t].result = "out"]
  /\ Release(t)
  /\ UNCHANGED <<row, jar>>

(* Twenty minutes pass.  Bound: not once MaxIssued credentials were issued.*)
AccessExpires ==
  /\ row.fresh /\ row.issued < MaxIssued
  /\ row' = [row EXCEPT !.fresh = FALSE]
  /\ UNCHANGED <<jar, tab, wire, lock>>

RefreshNext == \/ \E t \in Tabs : Restore(t) \/ Begin(t) \/ Send(t) \/ Serve(t) \/ Receive(t) \/ Abandon(t)
               \/ AccessExpires

(* A tab goes on, the server answers, and a call is not abandoned for ever.*)
Fairness == \A t \in Tabs : /\ SF_refreshVars(Begin(t))
                            /\ WF_refreshVars(Send(t)) /\ WF_refreshVars(Serve(t)) /\ WF_refreshVars(Receive(t))

RefreshSpec     == RefreshInit /\ [][RefreshNext]_refreshVars
RefreshFairSpec == RefreshSpec /\ Fairness

-----------------------------------------------------------------------------
(* The tabs of one browser never end their own session: no two of them     *)
(* present one refresh token, whatever is lost and whoever is closed.      *)
(* CLIENT-INTEGRATION.md:8 asks it of a client: "Coordinate refresh in one *)
(* client operation: replaying an already consumed refresh token revokes   *)
(* its session family."                                                    *)
OwnTabsKeepSession == row.state = "live"

(* A tab that finishes restoring can write: the CSRF value in its memory   *)
(* is the one the server compares with at that moment, although the cookies*)
(* it was read with are shared and other tabs restore too.                 *)
RestoredTabsCanWrite ==
  [][\A t \in Tabs : tab[t].stage # "idle" /\ tab'[t].stage = "idle" /\ tab'[t].result = "in"
        => tab'[t].csrf = row'.issued]_refreshVars

(* A tab that starts to restore ends signed in or out: the lock comes back *)
(* from tabs that fail, are refused or are closed.                         *)
RestorationEnds == \A t \in Tabs : tab[t].stage # "idle" ~> tab[t].stage = "idle"

-----------------------------------------------------------------------------
(* Why the app keeps its session.  One tab restores at a time; a live      *)
(* session has one unconsumed token, the last; and between the CSRF value  *)
(* it is shown and the renewal, the cookies are those of the last issue.   *)
Restoring(t) == tab[t].stage \notin {"idle", "waiting"}

OneRestores == \A t \in Tabs : Restoring(t) => lock = {t}

CarriesJar == \A t \in Tabs : wire[t] # NoCall =>
  /\ wire[t].stage = tab[t].stage /\ Restoring(t)
  /\ wire[t].refresh = jar.refresh /\ wire[t].csrf = tab[t].csrf

LastIssueCounts == row.unspent = {row.issued} /\ ~row.lapsed

ShownCurrent == \A t \in Tabs :
  /\ wire[t].answer = "ok" /\ wire[t].stage \in {"csrf", "confirm", "refresh"} =>
       wire[t].value = row.issued /\ (wire[t].stage = "csrf" => jar.refresh = row.issued)
  /\ tab[t].stage = "refresh" /\ wire[t].answer = "pending" =>
       jar.refresh = row.issued /\ tab[t].csrf = row.issued

RefreshInv == RefreshTypeOK /\ OneRestores /\ CarriesJar /\ LastIssueCounts /\ ShownCurrent /\ OwnTabsKeepSession
=============================================================================
