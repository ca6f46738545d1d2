------------------------------- MODULE SessionRows -------------------------------
(***************************************************************************)
(* One row of table sessions with its chain of refresh tokens (auth.go,    *)
(* browser.go, schema.sql).  Each issue of credentials makes an access     *)
(* token, a CSRF value and a refresh token: all three bear the number of   *)
(* the issue.  A credential 0 is one that no issue made.                   *)
(***************************************************************************)
EXTENDS Naturals

CONSTANT MaxIssued   \* bound: issues of credentials to one session

ASSUME IssuedAssumption == MaxIssued \in Nat \ {0}

Issues == 1..MaxIssued

SessionRow == [state : {"none", "live", "revoked"}, issued : 0..MaxIssued,
               unspent : SUBSET Issues,   \* refresh tokens not consumed
               fresh : BOOLEAN,           \* the access token has not expired
               lapsed : BOOLEAN]          \* refresh_expires_at has passed

NoSession == [state |-> "none", issued |-> 0, unspent |-> {}, fresh |-> FALSE, lapsed |-> FALSE]

(* newSession: twenty minutes of access, thirty days of refreshing.        *)
NewSession == [state |-> "live", issued |-> 1, unspent |-> {1}, fresh |-> TRUE, lapsed |-> FALSE]

(* Authenticate: only the access token issued last opens the session.      *)
Opens(row, access) == row.state = "live" /\ row.fresh /\ access = row.issued

(* BrowserCSRF: an unconsumed refresh token is shown the current value.    *)
MayReadCSRF(row, token) == row.state = "live" /\ ~row.lapsed /\ token \in row.unspent

(* Refresh, check by check: an unknown, revoked or lapsed chain refuses;   *)
(* a consumed token is a replay; the web client must know the CSRF value.  *)
Known(row, token)      == row.state = "live" /\ ~row.lapsed /\ token \in 1..row.issued
Replays(row, token)    == Known(row, token) /\ token \notin row.unspent
Renews(row, token, csrf) == Known(row, token) /\ token \in row.unspent /\ csrf = row.issued

Revoked(row) == [row EXCEPT !.state = IF @ = "live" THEN "revoked" ELSE @]

(* The token is consumed and the next credentials replace the old ones.    *)
Rotated(row, token) ==
  [row EXCEPT !.issued = @ + 1, !.unspent = (@ \ {token}) \cup {row.issued + 1}, !.fresh = TRUE]

Refreshed(row, token, csrf) ==
  CASE Replays(row, token)      -> Revoked(row)
    [] Renews(row, token, csrf) -> Rotated(row, token)
    [] OTHER                    -> row
=============================================================================
