---------------------------- MODULE CryptoProofs ----------------------------
(***************************************************************************)
(* Proofs about Crypto, for every set of paths and every set of results of *)
(* the library calls that the assumptions allow.                           *)
(***************************************************************************)
EXTENDS Crypto, TLAPS

(* What holds at each call: which secrets are in memory, and where the     *)
(* exception context points.                                               *)
Progress ==
  /\ pc \in {"derive", "sign", "init_private_key", "init_public_key", "generate_pair", "compress"} =>
       path \in KeyPaths
  /\ caller \in {"command", "signing"} /\ pc # "idle" => path \in Paths
  /\ caller = "menu" /\ pc # "idle" => path = MenuPath /\ pk = NoKey
  /\ pc = "sign" <=> pc # "idle" /\ caller = "signing" /\ pc \notin {"derive", "init_private_key"}
  /\ seed = IF pc = "init_private_key" THEN path ELSE Zero
  /\ pc \in {"idle", "derive", "init_private_key"} => key = Zero
  /\ pc \in {"init_public_key", "generate_pair", "compress"} => key = path
  /\ pc = "sign" => key = IF failed THEN Zero ELSE path
  /\ pc \notin {"idle", "sign"} => ~failed
  /\ pc = "compress" => pub.of = path
  /\ pc # "idle" => outcome = Nothing

Contexts ==
  /\ pc = "init_private_key" => try = "frame" /\ outer = IF refused = {} THEN "main" ELSE "dead"
  /\ ContextIsLostForGood

CryptoInv ==
  /\ CryptoTypeOK
  /\ Progress
  /\ Contexts
  /\ SecretsAreErased
  /\ AnswerIsOfRequestedKey
  /\ MenuShowsNoOtherKey

-----------------------------------------------------------------------------
(* The calls have their names, and what they are tested for is an error.   *)
LEMMA CallNames ==
  Calls = {"derive", "init_private_key", "init_public_key", "generate_pair", "compress", "sign"}
BY DEF Calls, Tested

LEMMA CryptoInitially == Init => CryptoInv
<1>. SUFFICES ASSUME Init PROVE CryptoInv
  OBVIOUS
<1>. USE PathsAssumption, CallNames DEF Init, NoKey, Nothing, Outcome
<1>1. CryptoTypeOK
  BY DEF CryptoTypeOK, PublicKey
<1>2. Progress
  BY DEF Progress
<1>3. Contexts
  BY DEF Contexts, ContextIsLostForGood
<1>4. SecretsAreErased /\ AnswerIsOfRequestedKey /\ MenuShowsNoOtherKey
  BY DEF SecretsAreErased, AnswerIsOfRequestedKey, MenuShowsNoOtherKey
<1>. QED
  BY <1>1, <1>2, <1>3, <1>4 DEF CryptoInv

(* The start of an operation: nothing secret is in memory.                 *)
LEMMA GetPublicKeyPreserves ==
  ASSUME CryptoInv, NEW p \in Paths, GetPublicKey(p)
  PROVE  CryptoInv'
<1>. USE PathsAssumption, CallNames
    DEF GetPublicKey, Enter,
        CryptoInv, CryptoTypeOK, Progress, Contexts, ContextIsLostForGood,
        PublicKey, NoKey, Nothing, Outcome, KeyPaths
<1>1. CryptoTypeOK'
  <2>1. (pc \in Calls \cup {"idle"})'
    OBVIOUS
  <2>2. (caller \in {"command", "menu", "signing"})' /\ (path \in KeyPaths \cup {Zero})'
        /\ (key \in KeyPaths \cup {Zero})' /\ (seed \in KeyPaths \cup {Zero})'
    OBVIOUS
  <2>3. (pk \in PublicKey)' /\ (pub \in PublicKey)'
    OBVIOUS
  <2>4. (try \in {"main", "frame", "dead"})' /\ (outer \in {"main", "dead"})'
    OBVIOUS
  <2>5. (left \subseteq KeyPaths)' /\ (failed \in BOOLEAN)'
    OBVIOUS
  <2>6. (outcome \in [kind : {"nothing", "menu", "pubkey", "signature", "SW_DENY",
                              "SW_DISPLAY_ADDRESS_FAIL", "SW_SIGNATURE_FAIL"},
                      key : PublicKey])'
    OBVIOUS
  <2>7. (refused \subseteq {"derive", "init_private_key"} \X KeyPaths)'
    OBVIOUS
  <2>. QED
    BY <2>1, <2>2, <2>3, <2>4, <2>5, <2>6, <2>7 DEF CryptoTypeOK
<1>2. Progress'
  BY DEF CryptoInv
<1>3. Contexts'
  BY DEF CryptoInv
<1>4. SecretsAreErased'
  BY DEF SecretsAreErased
<1>5. AnswerIsOfRequestedKey'
  BY DEF AnswerIsOfRequestedKey
<1>6. MenuShowsNoOtherKey'
  BY DEF MenuShowsNoOtherKey
<1>. QED
  BY <1>1, <1>2, <1>3, <1>4, <1>5, <1>6


LEMMA MenuPubkeyPreserves ==
  ASSUME CryptoInv, MenuPubkey
  PROVE  CryptoInv'
<1>. USE PathsAssumption, CallNames
    DEF MenuPubkey, Enter,
        CryptoInv, CryptoTypeOK, Progress, Contexts, ContextIsLostForGood,
        PublicKey, NoKey, Nothing, Outcome, KeyPaths
<1>1. CryptoTypeOK'
  <2>1. (pc \in Calls \cup {"idle"})'
    OBVIOUS
  <2>2. (caller \in {"command", "menu", "signing"})' /\ (path \in KeyPaths \cup {Zero})'
        /\ (key \in KeyPaths \cup {Zero})' /\ (seed \in KeyPaths \cup {Zero})'
    OBVIOUS
  <2>3. (pk \in PublicKey)' /\ (pub \in PublicKey)'
    OBVIOUS
  <2>4. (try \in {"main", "frame", "dead"})' /\ (outer \in {"main", "dead"})'
    OBVIOUS
  <2>5. (left \subseteq KeyPaths)' /\ (failed \in BOOLEAN)'
    OBVIOUS
  <2>6. (outcome \in [kind : {"nothing", "menu", "pubkey", "signature", "SW_DENY",
                              "SW_DISPLAY_ADDRESS_FAIL", "SW_SIGNATURE_FAIL"},
                      key : PublicKey])'
    OBVIOUS
  <2>7. (refused \subseteq {"derive", "init_private_key"} \X KeyPaths)'
    OBVIOUS
  <2>. QED
    BY <2>1, <2>2, <2>3, <2>4, <2>5, <2>6, <2>7 DEF CryptoTypeOK
<1>2. Progress'
  BY DEF CryptoInv
<1>3. Contexts'
  BY DEF CryptoInv
<1>4. SecretsAreErased'
  BY DEF SecretsAreErased
<1>5. AnswerIsOfRequestedKey'
  BY DEF AnswerIsOfRequestedKey
<1>6. MenuShowsNoOtherKey'
  BY DEF MenuShowsNoOtherKey
<1>. QED
  BY <1>1, <1>2, <1>3, <1>4, <1>5, <1>6


LEMMA SignTransactionPreserves ==
  ASSUME CryptoInv, SignTransaction
  PROVE  CryptoInv'
<1>. USE PathsAssumption, CallNames
    DEF SignTransaction, Enter,
        CryptoInv, CryptoTypeOK, Progress, Contexts, ContextIsLostForGood,
        PublicKey, NoKey, Nothing, Outcome, KeyPaths
<1>1. CryptoTypeOK'
  <2>1. (pc \in Calls \cup {"idle"})'
    OBVIOUS
  <2>2. (caller \in {"command", "menu", "signing"})' /\ (path \in KeyPaths \cup {Zero})'
        /\ (key \in KeyPaths \cup {Zero})' /\ (seed \in KeyPaths \cup {Zero})'
    OBVIOUS
  <2>3. (pk \in PublicKey)' /\ (pub \in PublicKey)'
    OBVIOUS
  <2>4. (try \in {"main", "frame", "dead"})' /\ (outer \in {"main", "dead"})'
    OBVIOUS
  <2>5. (left \subseteq KeyPaths)' /\ (failed \in BOOLEAN)'
    OBVIOUS
  <2>6. (outcome \in [kind : {"nothing", "menu", "pubkey", "signature", "SW_DENY",
                              "SW_DISPLAY_ADDRESS_FAIL", "SW_SIGNATURE_FAIL"},
                      key : PublicKey])'
    OBVIOUS
  <2>7. (refused \subseteq {"derive", "init_private_key"} \X KeyPaths)'
    OBVIOUS
  <2>. QED
    BY <2>1, <2>2, <2>3, <2>4, <2>5, <2>6, <2>7 DEF CryptoTypeOK
<1>2. Progress'
  BY DEF CryptoInv
<1>3. Contexts'
  BY DEF CryptoInv
<1>4. SecretsAreErased'
  BY DEF SecretsAreErased
<1>5. AnswerIsOfRequestedKey'
  BY DEF AnswerIsOfRequestedKey
<1>6. MenuShowsNoOtherKey'
  BY DEF MenuShowsNoOtherKey
<1>. QED
  BY <1>1, <1>2, <1>3, <1>4, <1>5, <1>6


LEMMA UploadPreserves ==
  ASSUME CryptoInv, NEW p \in Paths, Upload(p)
  PROVE  CryptoInv'
<1>. USE PathsAssumption, CallNames
    DEF Upload,
        CryptoInv, CryptoTypeOK, Progress, Contexts, ContextIsLostForGood,
        PublicKey, NoKey, Nothing, Outcome, KeyPaths
<1>1. CryptoTypeOK'
  <2>1. (pc \in Calls \cup {"idle"})'
    OBVIOUS
  <2>2. (caller \in {"command", "menu", "signing"})' /\ (path \in KeyPaths \cup {Zero})'
        /\ (key \in KeyPaths \cup {Zero})' /\ (seed \in KeyPaths \cup {Zero})'
    OBVIOUS
  <2>3. (pk \in PublicKey)' /\ (pub \in PublicKey)'
    OBVIOUS
  <2>4. (try \in {"main", "frame", "dead"})' /\ (outer \in {"main", "dead"})'
    OBVIOUS
  <2>5. (left \subseteq KeyPaths)' /\ (failed \in BOOLEAN)'
    OBVIOUS
  <2>6. (outcome \in [kind : {"nothing", "menu", "pubkey", "signature", "SW_DENY",
                              "SW_DISPLAY_ADDRESS_FAIL", "SW_SIGNATURE_FAIL"},
                      key : PublicKey])'
    OBVIOUS
  <2>7. (refused \subseteq {"derive", "init_private_key"} \X KeyPaths)'
    OBVIOUS
  <2>. QED
    BY <2>1, <2>2, <2>3, <2>4, <2>5, <2>6, <2>7 DEF CryptoTypeOK
<1>2. Progress'
  BY DEF CryptoInv
<1>3. Contexts'
  BY DEF CryptoInv
<1>4. SecretsAreErased'
  BY DEF SecretsAreErased
<1>5. AnswerIsOfRequestedKey'
  BY DEF AnswerIsOfRequestedKey
<1>6. MenuShowsNoOtherKey'
  BY DEF MenuShowsNoOtherKey
<1>. QED
  BY <1>1, <1>2, <1>3, <1>4, <1>5, <1>6

(* Inside TRY: a failure leaves the frame as it is.                        *)
LEMMA DerivePreserves ==
  ASSUME CryptoInv, Derive
  PROVE  CryptoInv'
<1>. USE PathsAssumption, CallNames
    DEF Derive, DerivationFails, LeaveTry, GiveUp, Abort, Idle,
        CryptoInv, CryptoTypeOK, Progress, Contexts, ContextIsLostForGood,
        PublicKey, NoKey, Nothing, Outcome, KeyPaths
<1>1. CryptoTypeOK'
  <2>1. (pc \in Calls \cup {"idle"})'
    OBVIOUS
  <2>2. (caller \in {"command", "menu", "signing"})' /\ (path \in KeyPaths \cup {Zero})'
        /\ (key \in KeyPaths \cup {Zero})' /\ (seed \in KeyPaths \cup {Zero})'
    OBVIOUS
  <2>3. (pk \in PublicKey)' /\ (pub \in PublicKey)'
    OBVIOUS
  <2>4. (try \in {"main", "frame", "dead"})' /\ (outer \in {"main", "dead"})'
    OBVIOUS
  <2>5. (left \subseteq KeyPaths)' /\ (failed \in BOOLEAN)'
    OBVIOUS
  <2>6. (outcome \in [kind : {"nothing", "menu", "pubkey", "signature", "SW_DENY",
                              "SW_DISPLAY_ADDRESS_FAIL", "SW_SIGNATURE_FAIL"},
                      key : PublicKey])'
    OBVIOUS
  <2>7. (refused \subseteq {"derive", "init_private_key"} \X KeyPaths)'
    OBVIOUS
  <2>. QED
    BY <2>1, <2>2, <2>3, <2>4, <2>5, <2>6, <2>7 DEF CryptoTypeOK
<1>2. Progress'
  BY DEF CryptoInv
<1>3. Contexts'
  BY DEF CryptoInv
<1>4. SecretsAreErased'
  BY DEF SecretsAreErased
<1>5. AnswerIsOfRequestedKey'
  BY DEF AnswerIsOfRequestedKey
<1>6. MenuShowsNoOtherKey'
  BY DEF MenuShowsNoOtherKey
<1>. QED
  BY <1>1, <1>2, <1>3, <1>4, <1>5, <1>6


LEMMA InitPrivateKeyPreserves ==
  ASSUME CryptoInv, InitPrivateKey
  PROVE  CryptoInv'
<1>. USE PathsAssumption, CallNames
    DEF InitPrivateKey, DerivationFails, LeaveTry, GiveUp, Abort, Idle,
        CryptoInv, CryptoTypeOK, Progress, Contexts, ContextIsLostForGood,
        PublicKey, NoKey, Nothing, Outcome, KeyPaths
<1>1. CryptoTypeOK'
  <2>1. (pc \in Calls \cup {"idle"})'
    OBVIOUS
  <2>2. (caller \in {"command", "menu", "signing"})' /\ (path \in KeyPaths \cup {Zero})'
        /\ (key \in KeyPaths \cup {Zero})' /\ (seed \in KeyPaths \cup {Zero})'
    OBVIOUS
  <2>3. (pk \in PublicKey)' /\ (pub \in PublicKey)'
    OBVIOUS
  <2>4. (try \in {"main", "frame", "dead"})' /\ (outer \in {"main", "dead"})'
    OBVIOUS
  <2>5. (left \subseteq KeyPaths)' /\ (failed \in BOOLEAN)'
    OBVIOUS
  <2>6. (outcome \in [kind : {"nothing", "menu", "pubkey", "signature", "SW_DENY",
                              "SW_DISPLAY_ADDRESS_FAIL", "SW_SIGNATURE_FAIL"},
                      key : PublicKey])'
    OBVIOUS
  <2>7. (refused \subseteq {"derive", "init_private_key"} \X KeyPaths)'
    OBVIOUS
  <2>. QED
    BY <2>1, <2>2, <2>3, <2>4, <2>5, <2>6, <2>7 DEF CryptoTypeOK
<1>2. Progress'
  BY DEF CryptoInv
<1>3. Contexts'
  BY DEF CryptoInv
<1>4. SecretsAreErased'
  BY DEF SecretsAreErased
<1>5. AnswerIsOfRequestedKey'
  BY DEF AnswerIsOfRequestedKey
<1>6. MenuShowsNoOtherKey'
  BY DEF MenuShowsNoOtherKey
<1>. QED
  BY <1>1, <1>2, <1>3, <1>4, <1>5, <1>6

(* The public key.                                                         *)
LEMMA InitPublicKeyPreserves ==
  ASSUME CryptoInv, InitPublicKey
  PROVE  CryptoInv'
<1>. USE PathsAssumption, CallNames
    DEF InitPublicKey, PublicKeyStep, InFrame, GiveUp, Abort, Idle,
        CryptoInv, CryptoTypeOK, Progress, Contexts, ContextIsLostForGood,
        PublicKey, NoKey, Nothing, Outcome, KeyPaths
<1>1. CryptoTypeOK'
  <2>1. (pc \in Calls \cup {"idle"})'
    OBVIOUS
  <2>2. (caller \in {"command", "menu", "signing"})' /\ (path \in KeyPaths \cup {Zero})'
        /\ (key \in KeyPaths \cup {Zero})' /\ (seed \in KeyPaths \cup {Zero})'
    OBVIOUS
  <2>3. (pk \in PublicKey)' /\ (pub \in PublicKey)'
    OBVIOUS
  <2>4. (try \in {"main", "frame", "dead"})' /\ (outer \in {"main", "dead"})'
    OBVIOUS
  <2>5. (left \subseteq KeyPaths)' /\ (failed \in BOOLEAN)'
    OBVIOUS
  <2>6. (outcome \in [kind : {"nothing", "menu", "pubkey", "signature", "SW_DENY",
                              "SW_DISPLAY_ADDRESS_FAIL", "SW_SIGNATURE_FAIL"},
                      key : PublicKey])'
    OBVIOUS
  <2>7. (refused \subseteq {"derive", "init_private_key"} \X KeyPaths)'
    OBVIOUS
  <2>. QED
    BY <2>1, <2>2, <2>3, <2>4, <2>5, <2>6, <2>7 DEF CryptoTypeOK
<1>2. Progress'
  BY DEF CryptoInv
<1>3. Contexts'
  BY DEF CryptoInv
<1>4. SecretsAreErased'
  BY DEF SecretsAreErased
<1>5. AnswerIsOfRequestedKey'
  BY DEF AnswerIsOfRequestedKey
<1>6. MenuShowsNoOtherKey'
  BY DEF MenuShowsNoOtherKey
<1>. QED
  BY <1>1, <1>2, <1>3, <1>4, <1>5, <1>6


LEMMA GeneratePairPreserves ==
  ASSUME CryptoInv, GeneratePair
  PROVE  CryptoInv'
<1>. USE PathsAssumption, CallNames
    DEF GeneratePair, PublicKeyStep, InFrame, GiveUp, Abort, Idle,
        CryptoInv, CryptoTypeOK, Progress, Contexts, ContextIsLostForGood,
        PublicKey, NoKey, Nothing, Outcome, KeyPaths
<1>1. CryptoTypeOK'
  <2>1. (pc \in Calls \cup {"idle"})'
    OBVIOUS
  <2>2. (caller \in {"command", "menu", "signing"})' /\ (path \in KeyPaths \cup {Zero})'
        /\ (key \in KeyPaths \cup {Zero})' /\ (seed \in KeyPaths \cup {Zero})'
    OBVIOUS
  <2>3. (pk \in PublicKey)' /\ (pub \in PublicKey)'
    OBVIOUS
  <2>4. (try \in {"main", "frame", "dead"})' /\ (outer \in {"main", "dead"})'
    OBVIOUS
  <2>5. (left \subseteq KeyPaths)' /\ (failed \in BOOLEAN)'
    OBVIOUS
  <2>6. (outcome \in [kind : {"nothing", "menu", "pubkey", "signature", "SW_DENY",
                              "SW_DISPLAY_ADDRESS_FAIL", "SW_SIGNATURE_FAIL"},
                      key : PublicKey])'
    OBVIOUS
  <2>7. (refused \subseteq {"derive", "init_private_key"} \X KeyPaths)'
    OBVIOUS
  <2>. QED
    BY <2>1, <2>2, <2>3, <2>4, <2>5, <2>6, <2>7 DEF CryptoTypeOK
<1>2. Progress'
  BY DEF CryptoInv
<1>3. Contexts'
  BY DEF CryptoInv
<1>4. SecretsAreErased'
  BY DEF SecretsAreErased
<1>5. AnswerIsOfRequestedKey'
  BY DEF AnswerIsOfRequestedKey
<1>6. MenuShowsNoOtherKey'
  BY DEF MenuShowsNoOtherKey
<1>. QED
  BY <1>1, <1>2, <1>3, <1>4, <1>5, <1>6


LEMMA CompressPreserves ==
  ASSUME CryptoInv, Compress
  PROVE  CryptoInv'
<1>. USE PathsAssumption, CallNames
    DEF Compress, InFrame, GiveUp, Abort, Idle,
        CryptoInv, CryptoTypeOK, Progress, Contexts, ContextIsLostForGood,
        PublicKey, NoKey, Nothing, Outcome, KeyPaths
<1>1. CryptoTypeOK'
  <2>1. (pc \in Calls \cup {"idle"})'
    OBVIOUS
  <2>2. (caller \in {"command", "menu", "signing"})' /\ (path \in KeyPaths \cup {Zero})'
        /\ (key \in KeyPaths \cup {Zero})' /\ (seed \in KeyPaths \cup {Zero})'
    OBVIOUS
  <2>3. (pk \in PublicKey)' /\ (pub \in PublicKey)'
    OBVIOUS
  <2>4. (try \in {"main", "frame", "dead"})' /\ (outer \in {"main", "dead"})'
    OBVIOUS
  <2>5. (left \subseteq KeyPaths)' /\ (failed \in BOOLEAN)'
    OBVIOUS
  <2>6. (outcome \in [kind : {"nothing", "menu", "pubkey", "signature", "SW_DENY",
                              "SW_DISPLAY_ADDRESS_FAIL", "SW_SIGNATURE_FAIL"},
                      key : PublicKey])'
    OBVIOUS
  <2>7. (refused \subseteq {"derive", "init_private_key"} \X KeyPaths)'
    OBVIOUS
  <2>. QED
    BY <2>1, <2>2, <2>3, <2>4, <2>5, <2>6, <2>7 DEF CryptoTypeOK
<1>2. Progress'
  BY DEF CryptoInv
<1>3. Contexts'
  BY DEF CryptoInv
<1>4. SecretsAreErased'
  BY DEF SecretsAreErased
<1>5. AnswerIsOfRequestedKey'
  BY DEF AnswerIsOfRequestedKey
<1>6. MenuShowsNoOtherKey'
  BY DEF MenuShowsNoOtherKey
<1>. QED
  BY <1>1, <1>2, <1>3, <1>4, <1>5, <1>6

(* A zero key signs nothing.                                               *)
LEMMA SignPreserves ==
  ASSUME CryptoInv, Sign
  PROVE  CryptoInv'
<1>. USE PathsAssumption, CallNames
    DEF Sign, InFrame, Abort, Idle,
        CryptoInv, CryptoTypeOK, Progress, Contexts, ContextIsLostForGood,
        PublicKey, NoKey, Nothing, Outcome, KeyPaths
<1>1. CryptoTypeOK'
  <2>1. (pc \in Calls \cup {"idle"})'
    OBVIOUS
  <2>2. (caller \in {"command", "menu", "signing"})' /\ (path \in KeyPaths \cup {Zero})'
        /\ (key \in KeyPaths \cup {Zero})' /\ (seed \in KeyPaths \cup {Zero})'
    OBVIOUS
  <2>3. (pk \in PublicKey)' /\ (pub \in PublicKey)'
    OBVIOUS
  <2>4. (try \in {"main", "frame", "dead"})' /\ (outer \in {"main", "dead"})'
    OBVIOUS
  <2>5. (left \subseteq KeyPaths)' /\ (failed \in BOOLEAN)'
    OBVIOUS
  <2>6. (outcome \in [kind : {"nothing", "menu", "pubkey", "signature", "SW_DENY",
                              "SW_DISPLAY_ADDRESS_FAIL", "SW_SIGNATURE_FAIL"},
                      key : PublicKey])'
    OBVIOUS
  <2>7. (refused \subseteq {"derive", "init_private_key"} \X KeyPaths)'
    OBVIOUS
  <2>. QED
    BY <2>1, <2>2, <2>3, <2>4, <2>5, <2>6, <2>7 DEF CryptoTypeOK
<1>2. Progress'
  BY DEF CryptoInv
<1>3. Contexts'
  BY DEF CryptoInv
<1>4. SecretsAreErased'
  BY DEF SecretsAreErased
<1>5. AnswerIsOfRequestedKey'
  BY DEF AnswerIsOfRequestedKey
<1>6. MenuShowsNoOtherKey'
  BY DEF MenuShowsNoOtherKey
<1>. QED
  BY <1>1, <1>2, <1>3, <1>4, <1>5, <1>6

-----------------------------------------------------------------------------
LEMMA CryptoStep == CryptoInv /\ [Next]_vars => CryptoInv'
<1>. SUFFICES ASSUME CryptoInv, [Next]_vars PROVE CryptoInv'
  OBVIOUS
<1>1. CASE \E p \in Paths : GetPublicKey(p) \/ Upload(p)
  BY <1>1, GetPublicKeyPreserves, UploadPreserves
<1>2. CASE MenuPubkey
  BY <1>2, MenuPubkeyPreserves
<1>3. CASE SignTransaction
  BY <1>3, SignTransactionPreserves
<1>4. CASE Derive
  BY <1>4, DerivePreserves
<1>5. CASE InitPrivateKey
  BY <1>5, InitPrivateKeyPreserves
<1>6. CASE InitPublicKey
  BY <1>6, InitPublicKeyPreserves
<1>7. CASE GeneratePair
  BY <1>7, GeneratePairPreserves
<1>8. CASE Compress
  BY <1>8, CompressPreserves
<1>9. CASE Sign
  BY <1>9, SignPreserves
<1>10. CASE UNCHANGED vars
  BY <1>10 DEF vars, CryptoInv, CryptoTypeOK, Progress, Contexts, ContextIsLostForGood, SecretsAreErased,
     AnswerIsOfRequestedKey, MenuShowsNoOtherKey
<1>. QED
  BY <1>1, <1>2, <1>3, <1>4, <1>5, <1>6, <1>7, <1>8, <1>9, <1>10 DEF Next

LEMMA CryptoInvariant == Spec => []CryptoInv
<1>1. CryptoInv /\ [Next]_vars => CryptoInv'
  BY CryptoStep
<1>. QED
  BY CryptoInitially, <1>1, PTL DEF Spec

(* The variables keep their types (crypto.c, get_public_key.c).            *)
THEOREM CryptoTypes == Spec => []CryptoTypeOK
<1>1. CryptoInv => CryptoTypeOK
  BY DEF CryptoInv
<1>. QED
  BY CryptoInvariant, <1>1, PTL

(* explicit_bzero and FINALLY: no secret outlives the operation it was     *)
(* derived for, but a seed whose initialization was refused inside TRY.    *)
THEOREM SecretsErased == Spec => []SecretsAreErased
<1>1. CryptoInv => SecretsAreErased
  BY DEF CryptoInv
<1>. QED
  BY CryptoInvariant, <1>1, PTL

(* A key or a signature sent is of the path requested, although results of *)
(* crypto_derive_private_key and of init_public_key are not looked at.     *)
THEOREM AnswerOfRequestedKey == Spec => []AnswerIsOfRequestedKey
<1>1. CryptoInv => AnswerIsOfRequestedKey
  BY DEF CryptoInv
<1>. QED
  BY CryptoInvariant, <1>1, PTL

(* ui_menu_pubkey and build_first_page never show the key of a command,    *)
(* although they ignore that handler_get_public_key_menu failed.           *)
THEOREM MenuShowsItsKey == Spec => []MenuShowsNoOtherKey
<1>1. CryptoInv => MenuShowsNoOtherKey
  BY DEF CryptoInv
<1>. QED
  BY CryptoInvariant, <1>1, PTL

(* A return from inside TRY loses the exception context, once and for all; *)
(* nothing else does (crypto.c:42, 51 and 52).                             *)
THEOREM ContextLostForGood == Spec => []ContextIsLostForGood
<1>1. CryptoInv => ContextIsLostForGood
  BY DEF CryptoInv, Contexts
<1>. QED
  BY CryptoInvariant, <1>1, PTL
=============================================================================
