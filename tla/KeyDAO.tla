------------------------------- MODULE KeyDAO -------------------------------
(***************************************************************************)
(* The key stores of types/store: MemoryDAO, a map, and LevelDBDAO, a      *)
(* database that encrypts the private key with a Crypto.  The default      *)
(* Crypto is AES of aes.go; "user" stands for one the application supplies *)
(* (external: decrypts with the password that encrypted, else errs).       *)
(***************************************************************************)
EXTENDS Naturals

CONSTANTS Names, Keys,    \* a key stands for its address too
          Passwords, NoPassword,   \* NoPassword: the empty one
          Crypto,                  \* "AES" or "user"
          Absent

ASSUME CryptoAssumption == Crypto \in {"AES", "user"}

VARIABLES dao,     \* the store the client was made with: "memory" or "level"
          store    \* store[n]: the KeyInfo of name n

\* What is in PrivKeyArmor: the key, the key encrypted, or nothing.
Texts == {"plain", "cipher", "empty"}

KeyInfo == [pub: Keys, text: Texts, pw: Passwords]

ASSUME AbsentAssumption == Absent \notin Keys /\ Absent \notin KeyInfo

StoreTypeOK == /\ dao \in {"memory", "level"}
               /\ store \in [Names -> KeyInfo \cup {Absent}]

\* There is a key under the name.
Stored(n) == store[n] # Absent

\* What Has may answer: LevelDBDAO takes an error of the database for FALSE.
Has(n) == IF dao = "level" THEN {Stored(n), FALSE} ELSE {Stored(n)}

\* Mutant: encryption drops the key.
EncryptNothing == "empty"

\* Mutant: the error of Encrypt is not looked at.
EncryptUnchecked == "error"

Encrypt == IF Crypto = "AES" THEN "empty" ELSE "cipher"

\* Mutant: any password opens the private key.
DecryptAlways(info, pw) == "plain"

\* Decrypt of the text with a password: a text, or "error".
Decrypt(info, pw) == IF Crypto = "AES" THEN "empty"
                     ELSE IF pw = info.pw /\ info.text = "cipher" THEN "plain"
                     ELSE "error"

\* The text Read answers with; LevelDB does not decrypt without a password.
\* An absent name is not an error: Read answers an empty KeyInfo.
ReadText(n, pw) ==
    IF ~ Stored(n) THEN "empty"
    ELSE IF dao = "level" /\ pw # NoPassword THEN Decrypt(store[n], pw)
    ELSE store[n].text

ReadFails(n, pw) == ReadText(n, pw) = "error"

\* NewPrivateKeyManager decodes the text; only the plain one is a key.
ReadPrivKey(n, pw) == IF ReadText(n, pw) = "plain" THEN store[n].pub ELSE Absent

\* Find: the public key is not encrypted, but a wrong password fails Read.
FindKey(n, pw) == IF ReadFails(n, pw) \/ ~ Stored(n) THEN Absent ELSE store[n].pub

\* MemoryDAO.Write, and the SetSync of LevelDBDAO.Write.
Put(n, pw, k) ==
    store' = [store EXCEPT ![n] =
        [pub |-> k, pw |-> pw,
         text |-> IF dao = "level" THEN Encrypt ELSE "plain"]]

Drop(n) == store' = [store EXCEPT ![n] = Absent]
=============================================================================
