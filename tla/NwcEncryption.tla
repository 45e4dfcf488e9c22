--------------------------- MODULE NwcEncryption ---------------------------
(***************************************************************************)
(* How long the encrypted texts of nwc_nostr.py are, and which of them its *)
(* readers take: padding, base64 and the limits of NIP-44, and the blocks  *)
(* of NIP-04.  A text stands for its length in bytes, an encrypted one for *)
(* its lengths in characters and bytes and that of its padding; the        *)
(* ciphers keep the length.                                                *)
(***************************************************************************)
EXTENDS Integers, FiniteSetsExt

-----------------------------------------------------------------------------
(* NIP-44.                                                                  *)

Ceil(a, b) == (a + b - 1) \div b
BitLength(n) == Min({k \in 0..17 : n < 2^k})

\* nip44_calc_padded_len
PaddedLen(n) ==
  IF n <= 32
  THEN 32
  ELSE LET chunk == Max({32, 2^BitLength(n - 1) \div 8})
       IN  chunk * Ceil(n, chunk)

\* It raises for anything else.
CanPad(n) == n >= 1 /\ n <= 65535

Base64(bytes) == 4 * Ceil(bytes, 3)

\* nip44_encrypt: version, nonce, length prefix, padded text, MAC.
Nip44(n) == LET raw == 1 + 32 + 2 + PaddedLen(n) + 32
            IN  [chars |-> Base64(raw), bytes |-> raw, pad |-> PaddedLen(n) - n]

\* Mutant: the limit of what is decoded is the longest text, not the longest message.
Nip44ReadsShort(w) ==
  LET padded == w.bytes - 65
      n == padded - 2 - w.pad
  IN  IF /\ w.chars >= 132 /\ w.chars <= 87472
         /\ w.bytes >= 99 /\ w.bytes <= 65535
         /\ padded >= 34 /\ CanPad(n) /\ padded = 2 + PaddedLen(n)
      THEN {n} ELSE {}

\* nip44_decrypt and nip44_unpad; the prefix says where the padding begins.
Nip44Reads(w) ==
  LET padded == w.bytes - 65
      n == padded - 2 - w.pad
  IN  IF /\ w.chars >= 132 /\ w.chars <= 87472
         /\ w.bytes >= 99 /\ w.bytes <= 65603
         /\ padded >= 34 /\ CanPad(n) /\ padded = 2 + PaddedLen(n)
      THEN {n} ELSE {}

-----------------------------------------------------------------------------
(* NIP-04: AES-CBC with PKCS#7, and "?iv=" with an IV of 16 bytes.          *)

Nip04(n) == LET pad == 16 - (n % 16)
            IN  [chars |-> Base64(n + pad) + 4 + Base64(16), bytes |-> n + pad, pad |-> pad]

Nip04Reads(w) == IF w.bytes > 0 /\ w.bytes % 16 = 0 /\ w.pad \in 1..16
                 THEN {w.bytes - w.pad} ELSE {}
=============================================================================
