----------------------------- MODULE MCTxParser -----------------------------
(***************************************************************************)
(* Instances of TxParser for TLC.  The opcodes, limits and formats are the *)
(* real ones; texts are short, and some of their bytes are opcodes.        *)
(***************************************************************************)
EXTENDS ParserClaims

Letter(n)    == 96 + n
Word(b, len) == [k \in 1 .. len |-> b]

(* A transaction that exercises nothing in particular.                     *)
Plain(type) ==
  [type |-> type, nexus |-> <<Letter(14)>>, chain |-> <<Letter(13)>>,
   expiration |-> <<1, 4, 5, 6>>, payload |-> <<Letter(16)>>,
   gas |-> <<<<65>>, <<>>, <<49>>, <<50>>>>,
   args |-> IF type = "TRANSFER" THEN <<<<66>>, <<67>>, <<68>>, <<51>>>> ELSE <<<<66>>, <<67>>>>,
   allow |-> <<Letter(1)>>, spend |-> <<Letter(19)>>, contract |-> <<Letter(7)>>,
   method |-> <<Letter(18)>>, name |-> <<Letter(3)>>]

(* The values of its fields at and around their limits.                    *)
MCBuilt ==
  LET plain == {Plain("TRANSFER"), Plain("CUSTOM")}
      texts == {<<>>, <<CTX, EXTCALL>>, <<LOAD, 0, 4, 255>>, Word(66, 30)}
  IN  plain
      \cup {[d EXCEPT !.nexus = Word(78, NEXUS_LEN), !.chain = Word(67, CHAIN_LEN),
                      !.payload = Word(80, PAYLOAD_LEN)] : d \in plain}
      \cup {[d EXCEPT !.args[i] = t] : d \in plain, i \in {1, 2}, t \in texts}
      \cup {[d EXCEPT !.gas[i] = t] : d \in plain, i \in 1 .. 4, t \in texts}
      \cup {[Plain("CUSTOM") EXCEPT !.args = [i \in 1 .. n |-> <<64 + i, EXTCALL>>]] :
              n \in 0 .. MAX_ARGS_LEN}
      \cup {[Plain("CUSTOM") EXCEPT !.args = <<Word(66, m), Word(67, n)>>] :
              m \in {100, 236, 237, 238, 255}, n \in {0, 1, 136, 137, 138, 200}}
      \cup {[Plain("CUSTOM") EXCEPT !.args = [i \in 1 .. 4 |-> Word(64 + i, n)]] :
              n \in {58, 59, 60}}

(* Fields that are refused: empty, too long, or cut off.                   *)
Refused ==
  LET whole == Build(Plain("CUSTOM"))
  IN  {Word(0, MAX_TRANSACTION_LEN + 1), <<253>>, <<253, 1>>, <<254, 1, 0, 0, 1, 65>>}
      \cup {Build([Plain("CUSTOM") EXCEPT !.nexus = Word(78, n)]) : n \in {0, NEXUS_LEN + 1}}
      \cup {Build([Plain("CUSTOM") EXCEPT !.chain = Word(78, n)]) : n \in {0, CHAIN_LEN + 1}}
      \cup {Build([Plain("CUSTOM") EXCEPT !.payload = Word(78, n)]) : n \in {0, PAYLOAD_LEN + 1}}
      \cup {Serialize(<<78>>, <<77>>, Word(0, n), <<0, 0, 0, 0>>, <<80>>) :
              n \in {0, SCRIPT_LEN, SCRIPT_LEN + 1}}
      \cup {SubSeq(whole, 1, n) : n \in 0 .. Len(whole)}

WithScript(script) == Serialize(<<78>>, <<77>>, script, <<1, 2, 3, 4>>, <<80>>)

(* The script of test_sign_tx_long_tx: a transfer of nine arguments.       *)
MCTestInputs ==
  {Build([Plain("TRANSFER") EXCEPT !.args =
     <<<<66>>, <<66>>, <<68>>, <<51>>, <<51>>, <<51>>, <<51>>, <<51>>, <<51>>>>])}

(* Lengths in more bytes than they need.                                   *)
MCLongLengths ==
  LET short(text) == {LengthAndText(text), <<253, Len(text), 0>> \o text}
      long(text)  == short(text) \cup {<<254, Len(text), 0, 0, 0>> \o text}
      script      == <<LOAD, 0, 4, 1, 66>>
  IN  {n \o c \o s \o <<1, 2, 3, 4>> \o p :
         n \in long(<<78>>), c \in short(<<77>>), s \in short(script), p \in short(<<80>>)}

(* Scripts that were cut off, or in which one byte is another one.         *)
Cut(script)     == {SubSeq(script, 1, n) : n \in 1 .. Len(script) - 1}
Damaged(script) == {[script EXCEPT ![i] = b] :
                      i \in DOMAIN script, b \in {0, PUSH, EXTCALL, LOAD, CTX, 255}}

MCBuiltInputs == {Build(d) : d \in MCBuilt}

MCDamagedInputs ==
  {WithScript(s) :
     s \in UNION {Cut(Script(Plain(type))) \cup Damaged(Script(Plain(type))) :
                    type \in {"TRANSFER", "CUSTOM"}}}
  \cup {Build([Plain("CUSTOM") EXCEPT !.args = <<Word(66, 255), Word(67, 200)>>])}
  \cup {WithScript(CallContract([i \in 1 .. 4 |-> Word(65, 190)], <<97>>, <<103>>)
                     \o <<LOAD, 0, 4, 255, 66>>)}
  \cup Refused

MCInputs == MCBuiltInputs \cup MCDamagedInputs \cup MCLongLengths
=============================================================================
