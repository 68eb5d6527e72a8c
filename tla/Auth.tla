-------------------------------- MODULE Auth --------------------------------
(***************************************************************************)
(* Auth of src/src/auth.cpp: the stored Tokens and the login and refresh *)
(* calls that replace them from the broker's JSON answer.  The HTTP post *)
(* is the input resp = [status, body]; a body is the record of the keys   *)
(* the handlers look at, each a value, Absent (key missing) or NonInt (a  *)
(* TTL key holding something other than an integer).  A token string is  *)
(* a number: Empty (0) is "", the broker issues 1, 2, ...  Times are     *)
(* whole seconds; Epoch (0) is the default time_point, "no TTL known".   *)
(***************************************************************************)
EXTENDS Integers

CONSTANTS Absent, NonInt, Skew

VARIABLES tokens,  \* tokens_
          result   \* what the last login/refresh call returned

Empty == 0
Epoch == 0

InitAuth ==
    /\ tokens = [access_token |-> Empty, refresh_token |-> Empty,
                 feed_token |-> Empty, expires_at |-> Epoch]
    /\ result = FALSE

(* d.value(key, def) *)
value(d, key, def) == IF d[key] = Absent THEN def ELSE d[key]

Has(d, key) == d[key] # Absent
IsInt(x) == x # Absent /\ x # NonInt

(* expiresIn if it is an integer, else jwtTokenTTL if it is, else 0. *)
TtlOf(d) ==
    IF IsInt(d.expiresIn) THEN d.expiresIn
    ELSE IF IsInt(d.jwtTokenTTL) THEN d.jwtTokenTTL ELSE 0

Parsed(b) == b.parses /\ b.data

(* handle_login_response: the new tokens_ (written before the final test *)
(* of access_token) and the result.                                       *)
handle_login_response(b, now) ==
    IF ~Parsed(b) \/ ~Has(b, "jwtToken") \/ ~Has(b, "refreshToken")
    THEN [ok |-> FALSE, tok |-> tokens]
    ELSE LET t == [access_token  |-> b.jwtToken,
                   refresh_token |-> b.refreshToken,
                   feed_token    |-> value(b, "feedToken", Empty),
                   expires_at    |-> IF TtlOf(b) > 0 THEN now + TtlOf(b) ELSE Epoch]
         IN  [ok |-> t.access_token # Empty, tok |-> t]

(* handle_refresh_response: a non-empty jwtToken replaces the access     *)
(* token; refreshToken and feedToken only if present; expires_at only if *)
(* a positive TTL came with it.                                           *)
handle_refresh_response(b, now) ==
    IF ~Parsed(b) \/ value(b, "jwtToken", Empty) = Empty
    THEN [ok |-> FALSE, tok |-> tokens]
    ELSE [ok |-> TRUE,
          tok |-> [access_token  |-> b.jwtToken,
                   refresh_token |-> IF Has(b, "refreshToken") THEN b.refreshToken
                                     ELSE tokens.refresh_token,
                   feed_token    |-> value(b, "feedToken", tokens.feed_token),
                   expires_at    |-> IF TtlOf(b) > 0 THEN now + TtlOf(b)
                                     ELSE tokens.expires_at]]

(* login_impl / refresh after the post: a non-2xx status fails with      *)
(* tokens_ untouched, otherwise the handler decides.                      *)
AfterPost(resp, handler) ==
    LET r == IF resp.status \div 100 # 2 THEN [ok |-> FALSE, tok |-> tokens] ELSE handler
    IN  tokens' = r.tok /\ result' = r.ok

(* login_with_totp(otp) -> login_impl: the post, then the handler. *)
login_impl(resp, now) == AfterPost(resp, handle_login_response(resp.body, now))

(* refresh(): without a refresh token it returns false and posts nothing; *)
(* otherwise the post, then the handler.                                  *)
refresh_without_token ==
    /\ tokens.refresh_token = Empty
    /\ result' = FALSE /\ UNCHANGED tokens

refresh(resp, now) ==
    /\ tokens.refresh_token # Empty
    /\ AfterPost(resp, handle_refresh_response(resp.body, now))

(* HTTPClient::post_json -> post -> perform_request throws when resolve, *)
(* connect, the TLS handshake, the write or the read fails, or when the  *)
(* stream's timeout expires.  Nothing catches it: the exception leaves  *)
(* login_impl / refresh before any assignment, so tokens_ stay as they  *)
(* were and the call returns nothing.                                    *)
post_throws == UNCHANGED <<tokens, result>>

refresh_post_throws == tokens.refresh_token # Empty /\ post_throws

(* Mutant: the expiry test is strict, so a token is still fresh at       *)
(* exactly now + skew = expires_at.                                       *)
is_expiredStrict(now, skew) ==
    IF tokens.access_token = Empty THEN TRUE
    ELSE IF tokens.expires_at = Epoch THEN FALSE
    ELSE now + skew > tokens.expires_at

(* is_expired(skew): no access token is expired; an unknown TTL never    *)
(* expires; otherwise now + skew >= expires_at.                           *)
is_expired(now, skew) ==
    IF tokens.access_token = Empty THEN TRUE
    ELSE IF tokens.expires_at = Epoch THEN FALSE
    ELSE now + skew >= tokens.expires_at

(* auth_headers(): {} without an access token, else the Authorization   *)
(* header carrying it ("Bearer " + access_token).                         *)
auth_headers ==
    IF tokens.access_token = Empty THEN {} ELSE {<<"Authorization", tokens.access_token>>}
=============================================================================
