--------------------------- MODULE SecureValidate ---------------------------
(***************************************************************************)
(* The secure/validate exchange.  A challenge is a number (0 is the empty  *)
(* string, which no challenge is); the answer a server computes from its   *)
(* cipher and the challenge is the pair of the two.  Six random letters    *)
(* are taken to be fresh each time.                                        *)
(***************************************************************************)
EXTENDS Integers

CONSTANTS Cipher,            \* game -> cipher, for ciphers of 6 to 15 characters
          OverrideBeacon,    \* games a beacon need not answer for
          OverrideClient     \* games a TCP client or checked server need not

\* What a server without the cipher computes with.
Noise == "noise"

ASSUME CipherAssumption == \A g \in DOMAIN Cipher : Cipher[g] # Noise

Answer == ({Noise} \cup {Cipher[g] : g \in DOMAIN Cipher}) \X Nat

NoSecure == 0

Invalid == <<"invalid!", NoSecure>>

GenerateValidateString(cipher, secure) == <<cipher, secure>>

\* returnValidate: computed only when cipher and challenge have a legal length.
ReturnValidate(game, secure) ==
    IF game \in DOMAIN Cipher /\ secure # NoSecure
    THEN GenerateValidateString(Cipher[game], secure) ELSE Invalid

ValidateGamename(isBeacon, game, answer, secure) ==
    \/ isBeacon  /\ game \in OverrideBeacon
    \/ ~isBeacon /\ game \in OverrideClient
    \/ answer = ReturnValidate(game, secure)
=============================================================================
