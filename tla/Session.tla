------------------------------- MODULE Session -------------------------------
(***************************************************************************)
(* The credential side of the application, as src/tests/auth_test.cpp and *)
(* totp_test.cpp drive it: a TOTP object is built from the Base32 secret  *)
(* (src/src/totp.cpp), Auth logs in with the code of the current time and *)
(* later refreshes (src/src/auth.cpp), and verify may be called on the    *)
(* TOTP object (a const method: it is checked in every state, not a    *)
(* step).  The broker is the environment: it accepts a login whose  *)
(* one-time password is the RFC 6238 code of the shared secret for the    *)
(* current step, and answers a login or refresh with any of the body      *)
(* shapes in LoginShapes / RefreshShapes or with a 5xx -- or the answer is *)
(* lost.  A token it issues lives Lifetime seconds; the TTL it reports,   *)
(* when it reports one, is that lifetime.                                 *)
(***************************************************************************)
EXTENDS Integers, Sequences, SequencesExt

CONSTANTS Hmac(_, _, _), Throws,
          None,           \* no value yet
          Absent, NonInt, Skew,
          Fresh,          \* in a shape: the token the broker issues now
          Secrets,        \* Base32 strings the TOTP may be built from
          DigitChoices, PeriodChoices, AlgoChoices,
          Windows,        \* window_steps values verify is called with
          LoginShapes, RefreshShapes,
          Lifetime,       \* seconds an issued access token is valid
          MaxTime,        \* bound on the clock
          MaxIssue,       \* bound on the tokens the broker issues
          MaxRtt          \* bound on the seconds an answer takes back

VARIABLES now,       \* system_clock::now(), whole seconds
          ctor,      \* the TOTP constructor's arguments (None before it ran)
          totp,      \* the TOTP object, Throws if the constructor threw
          tokens, result,
          srvNext,   \* the broker's next token number
          srvExpiry, \* token number -> the time it stops being accepted
          rtt        \* token number -> seconds between the broker issuing it
                     \* and Auth's handler reading the clock (history)

vars == <<now, ctor, totp, tokens, result, srvNext, srvExpiry, rtt>>

T == INSTANCE Totp
A == INSTANCE Auth

Init ==
    /\ now = 1
    /\ ctor = None /\ totp = None
    /\ A!InitAuth
    /\ srvNext = 1 /\ srvExpiry = [n \in 1..MaxIssue |-> 0]
    /\ rtt = [n \in 1..MaxIssue |-> 0]

Built == totp \notin {None, Throws}

-----------------------------------------------------------------------------
(* The TOTP constructor: secret_ is decoded first (member initializer), *)
(* then digits and period are checked; any of the three may throw.       *)

(* Mutant: the digits range check is missing. *)
ConstructNoDigitsCheck(s, d, p, a) ==
    LET sec == T!base32_decode(s)
    IN  IF sec = Throws \/ p <= 0 THEN Throws
        ELSE [secret |-> sec, digits |-> d, period |-> p, algo |-> a]

Construct(s, d, p, a) ==
    LET sec == T!base32_decode(s)
    IN  IF sec = Throws \/ d < 6 \/ d > 10 \/ p <= 0 THEN Throws
        ELSE [secret |-> sec, digits |-> d, period |-> p, algo |-> a]

BuildTotp ==
    /\ ctor = None
    /\ \E s \in Secrets, d \in DigitChoices, p \in PeriodChoices, a \in AlgoChoices :
          /\ ctor' = [secret |-> s, digits |-> d, period |-> p, algo |-> a]
          /\ totp' = Construct(s, d, p, a)
    /\ UNCHANGED <<now, tokens, result, srvNext, srvExpiry, rtt>>

Tick ==
    /\ now < MaxTime
    /\ now' = now + 1
    /\ UNCHANGED <<ctor, totp, tokens, result, srvNext, srvExpiry, rtt>>

-----------------------------------------------------------------------------
(* The broker.                                                             *)

(* A shape with Fresh replaced by the token number n. *)
Fill(shape, n) == [k \in DOMAIN shape |-> IF shape[k] = Fresh THEN n ELSE shape[k]]

NoBody == [parses |-> FALSE, data |-> FALSE, jwtToken |-> Absent,
           refreshToken |-> Absent, feedToken |-> Absent,
           expiresIn |-> Absent, jwtTokenTTL |-> Absent]

Answers(shapes) ==
    {[status |-> 200, body |-> Fill(b, srvNext)] : b \in shapes}
    \cup {[status |-> 500, body |-> NoBody]}

(* The broker's own RFC 6238 code for the shared secret at time t. *)
Expected(t) ==
    T!RfcHotp(T!Rfc4648Decode(T!Normalize(ctor.secret)),
              T!time_counter(t, ctor.period), ctor.digits, ctor.algo)

(* An answer carrying the token number srvNext issues it, at the time  *)
(* the request reaches the broker; the answer takes d seconds back.     *)
Issue(resp, d) ==
    IF resp.status = 200 /\ resp.body.jwtToken = srvNext
    THEN /\ srvExpiry' = [srvExpiry EXCEPT ![srvNext] = now + Lifetime]
         /\ rtt' = [rtt EXCEPT ![srvNext] = d]
         /\ srvNext' = srvNext + 1
    ELSE UNCHANGED <<srvNext, srvExpiry, rtt>>

(* post_json blocks Auth's only caller for the round trip: the clock     *)
(* advances by d while the broker's clock stays at the issue time, and  *)
(* the handler (auth.cpp:131, 161) reads system_clock::now() after it.  *)
(* Nothing else in this model acts while the post is outstanding, so    *)
(* the wait is folded into the step.                                     *)
RoundTrips == 0..(IF MaxTime - now < MaxRtt THEN MaxTime - now ELSE MaxRtt)

-----------------------------------------------------------------------------
(* login_with_totp(totp.code_at(now)).  The broker answers, or the      *)
(* answer is lost and post_json throws -- after the broker has acted on  *)
(* the request or before it got it.  The handler runs d seconds later.   *)
Login ==
    /\ Built
    /\ srvNext <= MaxIssue
    /\ \E resp \in IF T!code_at(totp, now) = Expected(now) THEN Answers(LoginShapes)
                   ELSE {[status |-> 401, body |-> NoBody]},
          d \in RoundTrips :
          /\ Issue(resp, d)
          /\ now' = now + d
          /\ A!login_impl(resp, now + d) \/ A!post_throws
    /\ UNCHANGED <<ctor, totp>>

(* refresh(), with the same lost answers. *)
Refresh ==
    /\ \/ A!refresh_without_token /\ UNCHANGED <<now, srvNext, srvExpiry, rtt>>
       \/ /\ srvNext <= MaxIssue
          /\ \E resp \in Answers(RefreshShapes), d \in RoundTrips :
                /\ Issue(resp, d)
                /\ now' = now + d
                /\ A!refresh(resp, now + d) \/ A!refresh_post_throws
    /\ UNCHANGED <<ctor, totp>>

Next == BuildTotp \/ Tick \/ Login \/ Refresh

Spec == Init /\ [][Next]_vars

-----------------------------------------------------------------------------
(* No token has been issued yet.  The TOTP properties below depend on   *)
(* ctor, totp and now alone, and every combination of those is reached  *)
(* in such a state (BuildTotp, then Ticks), so they are checked there.  *)
BeforeTokens == srvNext = 1 /\ A!InitAuth

TypeOK ==
    /\ now \in 1..MaxTime
    /\ Built => /\ totp.secret \in Seq(0..255)
                /\ totp.digits \in 6..10 /\ totp.period > 0
    /\ srvNext \in 1..MaxIssue + 1
    /\ tokens.access_token \in 0..MaxIssue /\ tokens.refresh_token \in 0..MaxIssue

(* The constructor keeps exactly the bytes RFC 4648 assigns to the      *)
(* normalized secret, through every wrap of the 32-bit buffer, and it    *)
(* throws exactly for a character outside the alphabet or a digits or   *)
(* period out of range.                                                  *)
SecretDecodesRFC4648 ==
    BeforeTokens /\ ctor # None =>
        LET ref == T!Rfc4648Decode(T!Normalize(ctor.secret))
        IN  /\ (totp = Throws) = (ref = Throws \/ ctor.digits \notin 6..10
                                     \/ ctor.period <= 0)
            /\ Built => totp.secret = ref

(* The one-time password code_at(now) -- the one login_with_totp is     *)
(* called with -- is the RFC 4226/6238 code: the truncated HMAC modulo   *)
(* 10^digits, zero-padded to digits places (left_pad_int).               *)
CodeMatchesRFC ==
    BeforeTokens /\ Built => T!code_at(totp, now)
               = T!RfcHotp(totp.secret, T!time_counter(now, totp.period),
                           totp.digits, totp.algo)

(* verify(code, now, window_steps) accepts the code of a step exactly    *)
(* when that step is within window_steps of the current one and not     *)
(* before zero, for the codes of the steps from zero to two past now.    *)
VerifyMatchesWindow ==
    BeforeTokens /\ Built =>
      \A w \in Windows, c \in 0 .. T!time_counter(now, totp.period) + 2 :
        LET code == T!hotp(totp.secret, c, totp.digits, totp.algo)
        IN  T!verify(totp, code, now, w)
              = \E c2 \in T!VerifyWindow(totp, now, w) :
                   T!hotp(totp.secret, c2, totp.digits, totp.algo) = code

(* is_expired(skew) keeps a margin of skew seconds less the round trip  *)
(* of the answer that brought the token: expires_at is taken from now() *)
(* after post_json returns (auth.cpp:131, 161), so while Auth says the   *)
(* access token is fresh and knows its expiry, the broker still accepts  *)
(* it skew - rtt seconds from now -- after logins, refreshes with or     *)
(* without a TTL, and failed calls that rewrote tokens_.  An answer      *)
(* slower than skew makes the margin negative: Auth then calls fresh a   *)
(* token the broker already rejects.                                     *)
ExpiryConservative ==
    (tokens.access_token # A!Empty /\ tokens.expires_at # A!Epoch
        /\ ~A!is_expired(now, Skew))
    => now + Skew - rtt[tokens.access_token] < srvExpiry[tokens.access_token]
=============================================================================
