----------------------------- MODULE NwcMessage -----------------------------
(***************************************************************************)
(* One NIP-47 request from its signature to the answer the client reads:   *)
(* make_event and schnorr_sign at the client, process_nip47_event and      *)
(* _build_nip47_response_event at the daemon, and the encryption of the    *)
(* answer by NIP-44 or NIP-04, all by the code of nwc_nostr.py (clients    *)
(* follow the same rules).  That a request is executed once is in NwcRelay.*)
(*                                                                         *)
(* The tagged hashes are taken for functions that may have any value: the  *)
(* nonce k0 and the challenge e of a message, which is the same for the    *)
(* signer and the verifier of one r, public key and message.  Encrypted    *)
(* texts are their lengths and the secret their keys are derived from: the *)
(* ciphers keep the length, and with another secret the MAC or the padding *)
(* is wrong.  The length of an answer has no bound: the client chooses how *)
(* many transactions list_transactions returns.                            *)
(***************************************************************************)
EXTENDS Secp256k1, NwcEncryption

CONSTANTS Key,        \* private keys
          Challenge,  \* values of e
          Length      \* lengths of answers, in bytes

ASSUME MessageAssumption == /\ Key \subseteq 1..N - 1 /\ Challenge \subseteq 0..N - 1
                            /\ Length \subseteq Nat

VARIABLES phase,    \* where the request is, see Next
          key,      \* the client's private key d0
          e, sig,   \* the challenge and <<r, s>>
          wallet,   \* the app's wallet_privkey
          scheme,   \* use_nip44: "nip44" or "nip04"
          length,   \* the answer's JSON
          wire,     \* the content of the event: [chars, bytes, pad, secret]
          got       \* the lengths the client reads: one, or none if it raises

sigVars == <<key, e, sig>>
vars == <<phase, sigVars, wallet, scheme, length, wire, got>>

NoSignature == <<0, 0>>
Nothing == [chars |-> 0, bytes |-> 0, pad |-> 0, secret |-> None]

Init == /\ phase = "idle"
        /\ key \in Key /\ e = 0 /\ sig = NoSignature
        /\ wallet = 0 /\ scheme = "nip44" /\ length = 0
        /\ wire = Nothing /\ got = {}

-----------------------------------------------------------------------------
(* Signatures and shared secrets.                                           *)

Public(d) == ToAffine(JacMul(d, G))
Even(point) == point[2] % 2 = 0

\* schnorr_sign
Signature(d0, k0, c) ==
  LET d == IF Even(Public(d0)) THEN d0 ELSE N - d0
      k == IF Even(Public(k0)) THEN k0 ELSE N - k0
  IN  <<Public(k0)[1], (k + c * d) % N>>

\* schnorr_verify with the x of the public key
Verifies(px, c, rs) ==
  LET A == LiftX(px)
      R == ToAffine(JacAdd(JacMul(rs[2], G), JacMul(c, <<A[1], (P - A[2]) % P, 1>>)))
  IN  /\ A # None
      /\ rs[1] < P /\ rs[2] < N
      /\ R # None /\ Even(R) /\ R[1] = rs[1]

\* ecdh_shared_x; None where it raises.
SharedX(d, px) == LET A == LiftX(px)
                      S == ToAffine(JacMul(d, <<A[1], A[2], 1>>))
                  IN  IF A = None \/ S = None THEN None ELSE <<S[1]>>

-----------------------------------------------------------------------------
Encrypted(s, n, secret) == LET w == IF s = "nip44" THEN Nip44(n) ELSE Nip04(n)
                           IN  [chars |-> w.chars, bytes |-> w.bytes, pad |-> w.pad,
                                secret |-> secret]

\* A client signs a request; a nonce of 0 raises.
Sign(k0, c) ==
  /\ phase = "idle"
  /\ phase' = "received"
  /\ sig' = Signature(key, k0, c) /\ e' = c
  /\ UNCHANGED <<key, wallet, scheme, length, wire, got>>

\* An event with anything for a signature.
Offer(rs, c) ==
  /\ phase = "idle"
  /\ phase' = "received"
  /\ sig' = rs /\ e' = c
  /\ UNCHANGED <<key, wallet, scheme, length, wire, got>>

Verify ==
  /\ phase = "received"
  /\ phase' = IF Verifies(Public(key)[1], e, sig) THEN "accepted" ELSE "rejected"
  /\ UNCHANGED <<sigVars, wallet, scheme, length, wire, got>>

\* No app has these two public keys.
Unknown == /\ phase = "accepted"
           /\ phase' = "idle"
           /\ e' = 0 /\ sig' = NoSignature
           /\ UNCHANGED <<key, wallet, scheme, length, wire, got>>

\* The event is marked as processed, decrypted and executed; one that cannot be
\* decrypted has an error for an answer.
Execute(d, s, n) ==
  /\ phase = "accepted"
  /\ phase' = "executed"
  /\ wallet' = d /\ scheme' = s /\ length' = n
  /\ e' = 0 /\ sig' = NoSignature
  /\ UNCHANGED <<key, wire, got>>

\* If nip44_pad raises, nothing is sent and the relay thread's connection ends.
BuildReply ==
  /\ phase = "executed"
  /\ IF scheme = "nip44" /\ ~CanPad(length)
     THEN phase' = "dropped" /\ UNCHANGED wire
     ELSE /\ phase' = "sent"
          /\ wire' = Encrypted(scheme, length, SharedX(wallet, Public(key)[1]))
  /\ UNCHANGED <<sigVars, wallet, scheme, length, got>>

ClientReads ==
  /\ phase = "sent"
  /\ phase' = "read"
  /\ got' = IF wire.secret # SharedX(key, Public(wallet)[1]) THEN {}
            ELSE IF scheme = "nip44" THEN Nip44Reads(wire) ELSE Nip04Reads(wire)
  /\ UNCHANGED <<sigVars, wallet, scheme, length, wire>>

Next == \/ \E c \in Challenge : \/ \E k0 \in 1..N - 1 : Sign(k0, c)
                                \/ \E r \in 0..P, s \in 0..N : Offer(<<r, s>>, c)
        \/ Verify \/ Unknown
        \/ \E d \in Key, s \in {"nip44", "nip04"}, n \in Length : Execute(d, s, n)
        \/ BuildReply \/ ClientReads

Spec == Init /\ [][Next]_vars

-----------------------------------------------------------------------------
\* BIP-340, with the textbook's group: what the holder of d makes with a nonce.
EvenScalar(d) == IF Multiple[d][2] % 2 = 0 THEN d ELSE N - d
Bip340(d, k, c) == <<Multiple[k][1], (EvenScalar(k) + c * EvenScalar(d)) % N>>

\* A request is executed if and only if its signature is one the client's key
\* makes with some nonce: whatever the key, the nonce and the challenge, odd or
\* even, equal or opposite, what was signed passes and nothing else does.
AcceptedIffSigned ==
  phase \in {"accepted", "rejected"} =>
    (phase = "accepted" <=> \E k \in 1..N - 1 : sig = Bip340(key, k, e))

\* Whatever its length, an answer that was sent is read with that length: the
\* limits of the reader, in characters, in bytes and in padding, fit all that
\* the writer makes, at both ends, and both sides derive the same secret from
\* x-only keys, although each lifts the other's key to a point that need not be
\* its own.
SentIsRead == phase = "read" => got = {length}
=============================================================================
