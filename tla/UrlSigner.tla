------------------------------ MODULE UrlSigner ------------------------------
(***************************************************************************)
(* Signing and verifying a download URL (infrastructure/crypto/            *)
(* url-signer.ts).  Both read a clock that ticks TicksPerSecond times a    *)
(* second (Date.now() does so 1000 times) and claim, or compare, whole     *)
(* seconds.  Only the holder of the secret can compute a signature, and    *)
(* different claims have different ones, so a signature is its claims and  *)
(* whether it is spelled as hex digests are, in lower case.                *)
(*                                                                         *)
(* The expiry in a URL is a text, and what Number() makes of it counts:    *)
(* "whole" says whether that is an integer, "number" which, and "plain"    *)
(* whether the text is the one String() makes of that integer.  There are  *)
(* others ("1700000000.0", "1.7e9", a blank before it), and they verify.   *)
(***************************************************************************)
EXTENDS Integers

CONSTANT TicksPerSecond

ASSUME TimeTicks == TicksPerSecond \in Nat \ {0}

\* Math.floor(nowMs / 1000)
Seconds(at) == at \div TicksPerSecond

\* String(number), and another text of that number.
String(n) == [whole |-> TRUE, number |-> n, plain |-> TRUE]
Respelled(text) == [text EXCEPT !.plain = FALSE]

\* A missing or blank query parameter, of which Number() makes 0, and a text
\* of which it makes NaN or a fraction.
Blank == Respelled(String(0))
NoInteger == [whole |-> FALSE, number |-> 0, plain |-> FALSE]

\* The HMAC is over the number, not over the text it was read from.
ComputeSignature(file, expires) == [claims |-> <<file, expires>>, lower |-> TRUE]

\* A missing query parameter.
NoSignature == [claims |-> <<>>, lower |-> TRUE]

\* The decoded bytes are compared, so any spelling of them will do.
HexEqual(expected, given) == expected.claims = given.claims

\* A variant with a plausible bug: the second of the expiry is too late.
VerifyBefore(url, at) ==
  /\ url.expires.whole
  /\ url.expires.number > Seconds(at)
  /\ HexEqual(ComputeSignature(url.file, url.expires.number), url.signature)

\* The URL that is handed out; its claims are signed.
Sign(file, ttl, at) ==
  LET expires == Seconds(at) + ttl
  IN  [file |-> file, expires |-> String(expires),
       signature |-> ComputeSignature(file, expires)]

\* The same URL with its expiry spelled as sign() spells it.
AsSigned(url) == [url EXCEPT !.expires.plain = TRUE]

\* The expiry is a whole number and not over (a URL is good in the second of
\* its expiry still), and the signature is that of the claims.
Verify(url, at) ==
  /\ url.expires.whole
  /\ url.expires.number >= Seconds(at)
  /\ HexEqual(ComputeSignature(url.file, url.expires.number), url.signature)
=============================================================================
