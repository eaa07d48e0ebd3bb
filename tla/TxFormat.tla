------------------------------ MODULE TxFormat ------------------------------
(***************************************************************************)
(* The wire format of a transaction: transaction_serialize                 *)
(* (transaction/serialize.c), and the scripts that wallets put into it     *)
(* (the ScriptBuilder of the tests, and the hex strings of                 *)
(* unit-tests/test_tx_parser.c), with what they say of the parser.  Texts  *)
(* are sequences of bytes.                                                 *)
(***************************************************************************)
EXTENDS TxParser

CONSTANT Built   \* transactions as wallets describe them

(* varint_write, of values below 2^16.                                     *)
VarintWrite(n) == IF n < 253 THEN <<n>> ELSE <<253, n % 256, n \div 256>>

(* A text behind its length.                                               *)
LengthAndText(text) == VarintWrite(Len(text)) \o text

(* What transaction_serialize writes.                                      *)
Serialize(nexus, chain, script, expiration, payload) ==
  LengthAndText(nexus) \o LengthAndText(chain) \o LengthAndText(script)
    \o expiration \o LengthAndText(payload)

(* The room it checks for before it writes (max_len).                      *)
RoomAskedFor(nexus, chain, script) == Len(nexus) + Len(chain) + Len(script) + 3

-----------------------------------------------------------------------------
(* Scripts.  Register 0, type 4 (string), as in the tests.                 *)
LoadText(text) == <<LOAD, 0, 4, Len(text)>> \o text
LoadPush(text) == LoadText(text) \o <<PUSH, 0>>

(* Arguments are pushed last one first: what pushes the first k of them.   *)
Pushed(args) ==
  LET pushed[k \in 0 .. Len(args)] ==
        IF k = 0 THEN <<>> ELSE LoadPush(args[k]) \o pushed[k - 1]
  IN  pushed

Arguments(args) == Pushed(args)[Len(args)]

CallContract(args, method, name) ==
  Arguments(args) \o LoadPush(method) \o LoadText(name) \o <<CTX, 0, 1, SWITCH, 1>>

CallInterop(args, method) == Arguments(args) \o LoadText(method) \o <<EXTCALL, 0>>

(* A transaction as a wallet describes it: AllowGas, the call, SpendGas.   *)
Script(d) ==
  CallContract(d.gas, d.allow, d.contract)
    \o (IF d.type = "TRANSFER" THEN CallInterop(d.args, d.method)
                               ELSE CallContract(d.args, d.method, d.name))
    \o CallContract(<<d.gas[1]>>, d.spend, d.contract) \o <<RET>>

Build(d) == Serialize(d.nexus, d.chain, Script(d), d.expiration, d.payload)

(* What a wallet may describe: texts whose length a load can state, no     *)
(* more arguments than a call has room for, and fields within the limits.  *)
Bytes        == Seq(0 .. 255)
Texts        == {t \in Bytes : Len(t) <= 255}
Fields(max)  == {t \in Bytes : Len(t) \in 1 .. max}
ArgLists     == {a \in Seq(Texts) : Len(a) <= MAX_ARGS_LEN}
Descriptions ==
  [type : {"TRANSFER", "CUSTOM"}, nexus : Fields(NEXUS_LEN), chain : Fields(CHAIN_LEN),
   expiration : [1 .. 4 -> 0 .. 255], payload : Fields(PAYLOAD_LEN),
   gas : ArgLists, args : ArgLists, allow : Texts, spend : Texts, contract : Texts,
   method : Texts, name : Texts]

ASSUME BuiltAssumption ==
  \A d \in Built :
    /\ d \in Descriptions
    /\ Len(d.gas) = 4
    /\ d.type = "TRANSFER" => Len(d.args) = 4
    /\ Len(Script(d)) <= SCRIPT_LEN /\ Len(Build(d)) <= MAX_TRANSACTION_LEN

(* The first k arguments as a review lists them: in the order of the call. *)
Listing(args) ==
  LET listing[k \in 0 .. Len(args)] ==
        IF k = 0 THEN <<>>
        ELSE (IF k = 1 THEN <<>> ELSE listing[k - 1] \o <<COMMA>>) \o args[k]
  IN  listing

Listed(args) == Listing(args)[Len(args)]

-----------------------------------------------------------------------------
(* What a wallet built is parsed into what the wallet described.           *)
ParsesWhatWasBuilt ==
  Ended => \A d \in Built : raw = Build(d) =>
    /\ status = "PARSING_OK" /\ ignored = {}
    /\ tx.type = d.type
    /\ <<d.nexus, d.chain, d.payload>> = <<Text(tx.nexus), Text(tx.chain), Text(tx.payload)>>
    /\ <<d.gas[3], d.gas[4]>> = <<Text(tx.gas_price), Text(tx.gas_limit)>>
    /\ tx.type = "TRANSFER" =>
         d.args = <<Text(tx.from), Text(tx.to), Text(tx.token), Text(tx.value)>>
    /\ tx.type = "CUSTOM" =>
         /\ <<d.gas[1], d.name, d.method>> = <<Text(tx.from), Text(tx.name), Text(tx.method)>>
         /\ IF Len(Listed(d.args)) <= OUTPUT_LEN - 2
            THEN joined = Listed(d.args)
            ELSE SubSeq(joined, 1, OUTPUT_LEN - 2) = SubSeq(Listed(d.args), 1, OUTPUT_LEN - 2)

(* A transaction that was accepted serializes to the bytes it was parsed   *)
(* from, whatever became of its script (unit-tests/test_tx_parser.c), or   *)
(* to fewer: the parser accepts a length in more bytes than varint_write   *)
(* takes for it.                                                           *)
RoundTrips ==
  status = "PARSING_OK" /\ "EXPIRATION_UNREAD" \notin ignored =>
    LET again == Serialize(Text(tx.nexus), Text(tx.chain), Text(tx.script),
                           tx.expiration, Text(tx.payload))
    IN  /\ Len(again) <= off
        /\ Len(again) = off => again = SubSeq(raw, 1, off)
=============================================================================
