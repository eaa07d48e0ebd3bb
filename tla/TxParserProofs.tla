--------------------------- MODULE TxParserProofs ---------------------------
(***************************************************************************)
(* Proofs about TxParser, for every transaction the host may upload.       *)
(***************************************************************************)
EXTENDS TxParser, SequenceTheorems, TLAPS

CallType == [args : [0 .. MAX_ARGS_LEN - 1 -> Slice], args_len : 0 .. 255,
             method : Slice, name : Slice]

TxType == [nexus : Slice, chain : Slice, script : Slice, payload : Slice,
           from : Slice, to : Slice, token : Slice, value : Slice,
           gas_limit : Slice, gas_price : Slice, method : Slice, name : Slice,
           expiration : [1 .. 4 -> 0 .. 255], type : {"TRANSFER", "CUSTOM"}]

PcType == {"start", "nexus", "chain", "script", "count", "interop", "args", "method",
           "name", "ctx", "switch", "extcall", "end", "expiration", "payload",
           "fields", "join", "done", "overrun"}

Limits == /\ MAX_TRANSACTION_LEN = 1020 /\ OUTPUT_LEN = 240 /\ MAX_ARGS_LEN = 4
          /\ NEXUS_LEN = 16 /\ CHAIN_LEN = 16 /\ PAYLOAD_LEN = 64 /\ SCRIPT_LEN = 924

(* The inductive invariant: types, cursors, and what the loops rely on.    *)
TypeInv ==
  /\ raw \in Seq(0 .. 255) /\ pc \in PcType
  /\ off \in Nat /\ tx \in TxType
  /\ call \in Calls /\ calls \in [Calls -> CallType]
  /\ ix \in -1 .. 255 /\ pushing \in BOOLEAN
  /\ soff \in Nat /\ scan \in [off : Nat, args : Nat]
  /\ joined \in Seq(0 .. 255)

CursorInv ==
  /\ OffsetsInside
  /\ pc \in {"start", "nexus", "chain", "script"} => soff = 0 /\ scan.off = 0

LoopInv ==
  /\ pc = "args" => ix \in 0 .. 254 /\ ix < calls[call].args_len
  /\ pushing => pc \in {"args", "method"}
  /\ Len(joined) < OUTPUT_LEN
  /\ pc # "done" => Len(joined) < OUTPUT_LEN - 1

Inv == TypeInv /\ CursorInv /\ LoopInv

(* Any byte of the zero-extended raw_tx is a byte.                         *)
LEMMA ByteType ==
  ASSUME raw \in Seq(0 .. 255), NEW i \in Nat
  PROVE  Byte(i) \in 0 .. 255
<1>1. CASE i < Len(raw)
  <2>1. i + 1 \in 1 .. Len(raw)
    BY <1>1, LenProperties
  <2>2. raw[i + 1] \in 0 .. 255
    BY <2>1, ElementOfSeq
  <2>3. QED
    BY <1>1, <2>2 DEF Byte
<1>2. CASE ~(i < Len(raw))
  BY <1>2 DEF Byte
<1>3. QED
  BY <1>1, <1>2

(* Any byte of the script is a byte.                                       *)
LEMMA OpType ==
  ASSUME TypeInv, NEW o \in Nat
  PROVE  Op(o) \in 0 .. 255
<1>1. tx.script.at \in Nat
  BY DEF TypeInv, TxType, Slice
<1>2. raw \in Seq(0 .. 255)
  BY DEF TypeInv
<1>3. tx.script.at + o \in Nat
  BY <1>1
<1>4. QED
  BY <1>2, <1>3, ByteType DEF Op

(* A varint is read inside the transaction, and the cursor behind it, too. *)
LEMMA VarintInside ==
  ASSUME TypeInv, CursorInv
  PROVE  /\ Varint(off).value \in Nat
         /\ Varint(off).next \in Nat
         /\ off <= Varint(off).next /\ Varint(off).next <= Len(raw)
<1>1. /\ raw \in Seq(0 .. 255) /\ off \in Nat /\ off <= Len(raw) /\ Len(raw) \in Nat
  BY LenProperties DEF TypeInv, CursorInv, OffsetsInside
<1>2. Byte(off) \in 0 .. 255 /\ Byte(off + 1) \in 0 .. 255 /\ Byte(off + 2) \in 0 .. 255
  BY <1>1, ByteType
<1> DEFINE width == IF off >= Len(raw) \/ Byte(off) < 253 THEN 1
                    ELSE IF Byte(off) = 253 THEN 3
                    ELSE IF Byte(off) = 254 THEN 5 ELSE 9
           low == Byte(off + 1) + 256 * Byte(off + 2)
           zeros == \A k \in 3 .. width - 1 : Byte(off + k) = 0
           value == IF width = 1 THEN Byte(off) ELSE IF zeros THEN low ELSE 65536
<1>3. width \in {1, 3, 5, 9}
  BY <1>1, <1>2
<1>4. value \in Nat
  <2>1. \A a, b \in 0 .. 255 : a + 256 * b \in Nat
    OBVIOUS
  <2>2. Byte(off) \in Nat
    BY <1>2
  <2>3. low \in Nat
    BY <1>2, <2>1
  <2> HIDE DEF width, low, zeros
  <2>4. QED
    BY <2>2, <2>3
<1>5. Varint(off) = IF off + width > Len(raw) THEN [value |-> 0, next |-> off]
                    ELSE [next |-> off + width, value |-> value]
  BY DEF Varint
<1> HIDE DEF width, value
<1>6. CASE off + width > Len(raw)
  BY <1>1, <1>5, <1>6
<1>7. CASE ~(off + width > Len(raw))
  BY <1>1, <1>3, <1>4, <1>5, <1>7
<1>8. QED
  BY <1>6, <1>7

(* read_load leaves the cursor inside the script, seek or no seek.         *)
LEMMA BehindInside ==
  ASSUME Size \in Nat, NEW o \in Nat, NEW len \in Nat, o <= Size
  PROVE  Behind(o, len) \in Nat /\ Behind(o, len) <= Size
BY DEF Behind

(* The size of the script is a number.                                     *)
LEMMA SizeType == TypeInv => Size \in Nat
BY DEF TypeInv, TxType, Slice, Size

(* Wherever a call ends, the cursors stay where they belong.               *)
ScriptPc == {"count", "interop", "args", "method", "name", "ctx", "switch", "extcall", "end"}

(* The end of a call, successful or not, keeps the invariant.              *)
LEMMA EndCallInv ==
  ASSUME Inv, NEW s, NEW o \in Nat, o <= Size, EndCall(s, o), pc \in ScriptPc,
         UNCHANGED <<raw, status, off, tx, calls, ix, joined>>
  PROVE  Inv'
<1>1. pc' \in {"expiration", "interop", "count", "end"}
  BY DEF EndCall, ScriptPc, Inv, TypeInv, Calls
<1>2. call' \in Calls
  BY DEF EndCall, Inv, TypeInv, Calls
<1>3. TypeInv'
  BY <1>1, <1>2 DEF EndCall, Inv, TypeInv, PcType
<1>4. CursorInv'
  BY <1>1 DEF EndCall, Inv, CursorInv, OffsetsInside, Size
<1>5. LoopInv'
  BY <1>1 DEF EndCall, ScriptPc, Inv, LoopInv
<1>6. QED
  BY <1>3, <1>4, <1>5 DEF Inv

(* A failing instruction keeps the invariant.                              *)
LEMMA FailsInv ==
  ASSUME Inv, NEW opcode, NEW n \in Nat, NEW wrong, Fails(opcode, n, wrong),
         pc \in ScriptPc, UNCHANGED <<raw, status, off, tx, joined>>
  PROVE  Inv'
<1>1. soff \in Nat /\ soff <= Size /\ Size \in Nat
  BY SizeType DEF Inv, TypeInv, CursorInv, OffsetsInside
<1>2. PICK o \in Nat : o <= Size /\ \E s : EndCall(s, o)
  <2>1. CASE soff >= Size /\ EndCall("SCRIPT_PARSING_ERROR", soff)
    BY <1>1, <2>1
  <2>2. CASE soff < Size /\ EndCall(wrong, soff + 1)
    BY <1>1, <2>2
  <2>3. CASE soff < Size /\ EndCall("SCRIPT_PARSING_ERROR", Size)
    BY <1>1, <2>3
  <2>4. QED
    BY <2>1, <2>2, <2>3 DEF Fails
<1>3. UNCHANGED <<calls, ix>>
  BY DEF Fails
<1>4. QED
  BY <1>2, <1>3, EndCallInv

-----------------------------------------------------------------------------
(* The instructions of the script.                                         *)
LEMMA CallUpdates ==
  ASSUME NEW c \in CallType, NEW s \in Slice, NEW n \in 0 .. 255,
         NEW i \in 0 .. MAX_ARGS_LEN - 1
  PROVE  /\ [c EXCEPT !.args[i] = s] \in CallType
         /\ [c EXCEPT !.method = s] \in CallType
         /\ [c EXCEPT !.name = s] \in CallType
         /\ [c EXCEPT !.args_len = n] \in CallType
BY DEF CallType

(* read_load, as a part of any of its callers, keeps the invariant.        *)
LEMMA ReadLoadInv == Inv /\ ReadLoad => Inv'
<1> SUFFICES ASSUME Inv, ReadLoad PROVE Inv'
  OBVIOUS
<1>1. /\ pc \in {"args", "method", "name"} /\ pc \in ScriptPc /\ ~pushing
      /\ UNCHANGED <<raw, status, off, tx, joined>>
  BY DEF ReadLoad, ScriptPc
<1>2. CASE Fails(LOAD, 3, "SCRIPT_PARSING_ERROR_OPCODE_LOAD13")
  BY <1>1, <1>2, FailsInv
<1>3. CASE ~Fails(LOAD, 3, "SCRIPT_PARSING_ERROR_OPCODE_LOAD13")
  <2> DEFINE s == [at |-> tx.script.at + soff + 4, len |-> Op(soff + 3)]
  <2>1. /\ Reads(LOAD, 3)
        /\ soff' = Behind(soff + 4, Op(soff + 3))
        /\ \/ /\ pc = "args" /\ ix >= MAX_ARGS_LEN
              /\ Overrun /\ UNCHANGED pushing
           \/ /\ pc = "args" /\ ix < MAX_ARGS_LEN
              /\ calls' = [calls EXCEPT ![call].args[ix] = s]
              /\ pushing' = TRUE
              /\ UNCHANGED <<pc, call, ix, scan, ignored>>
           \/ /\ pc # "args"
              /\ calls' = [calls EXCEPT ![call][pc] = s]
              /\ pushing' = (pc = "method" /\ call # "transfer_tokens")
              /\ pc' = CASE pc = "name" -> "ctx"
                         [] pc = "method" -> IF pushing' THEN "method" ELSE "extcall"
              /\ UNCHANGED <<call, ix, scan, ignored>>
    BY <1>3 DEF ReadLoad
  <2>2. Op(soff + 3) \in 0 .. 255
    <3>1. TypeInv
      BY DEF Inv
    <3>2. soff + 3 \in Nat
      BY DEF Inv, TypeInv
    <3>3. QED
      BY <3>1, <3>2, OpType
  <2>3. s \in Slice
    <3>1. tx.script.at \in Nat /\ soff \in Nat
      BY DEF Inv, TypeInv, TxType, Slice
    <3>2. QED
      BY <3>1, <2>2 DEF Slice
  <2>4. soff' \in Nat /\ soff' <= Size
    <3>1. Size \in Nat /\ soff + 4 \in Nat /\ soff + 4 <= Size
      BY <2>1, SizeType DEF Inv, TypeInv, Reads
    <3>2. QED
      BY <3>1, <2>1, <2>2, BehindInside
  <2> HIDE DEF s
  <2>5. calls' \in [Calls -> CallType]
    <3>1. calls[call] \in CallType /\ call \in Calls /\ calls \in [Calls -> CallType]
      BY DEF Inv, TypeInv
    <3>2. CASE UNCHANGED calls
      BY <3>1, <3>2
    <3>3. CASE pc = "args" /\ ix < MAX_ARGS_LEN /\ calls' = [calls EXCEPT ![call].args[ix] = s]
      <4>1. ix \in 0 .. 254
        BY <3>3 DEF Inv, LoopInv
      <4>2. ix \in 0 .. MAX_ARGS_LEN - 1
        BY <3>3, <4>1 DEF MAX_ARGS_LEN
      <4>3. [calls[call] EXCEPT !.args[ix] = s] \in CallType
        BY <3>1, <4>2, <2>3 DEF CallType
      <4>4. QED
        BY <3>1, <3>3, <4>3
    <3>4. CASE pc # "args" /\ calls' = [calls EXCEPT ![call][pc] = s]
      <4>1. [calls[call] EXCEPT ![pc] = s] \in CallType
        BY <1>1, <3>1, <3>4, <2>3 DEF CallType
      <4>2. QED
        BY <3>1, <3>4, <4>1
    <3>5. QED
      BY <2>1, <3>2, <3>3, <3>4 DEF Overrun
  <2>6. call' = call /\ ix' = ix /\ scan' = scan
    BY <2>1 DEF Overrun
  <2>7. pc' \in {"overrun", "args", "method", "extcall", "ctx"} /\ pushing' \in BOOLEAN
    <3>1. CASE pc = "args"
      <4>1. pushing \in BOOLEAN
        BY DEF Inv, TypeInv
      <4>2. /\ pc' = "overrun" \/ pc' = pc
            /\ pushing' = pushing \/ pushing' = TRUE
        BY <2>1, <3>1 DEF Overrun
      <4>3. QED
        BY <3>1, <4>1, <4>2
    <3>2. CASE pc = "name"
      BY <1>1, <2>1, <3>2
    <3>3. CASE pc = "method"
      <4>1. /\ pushing' = (call # "transfer_tokens")
            /\ pc' = IF pushing' THEN "method" ELSE "extcall"
        BY <2>1, <3>3
      <4>2. QED
        BY <4>1
    <3>4. QED
      BY <1>1, <3>1, <3>2, <3>3
  <2>8. pc' = "args" => pc = "args" /\ calls'[call].args_len = calls[call].args_len
    BY <1>1, <2>1 DEF Overrun, Inv, TypeInv, CallType
  <2>9. TypeInv'
    BY <1>1, <2>4, <2>5, <2>6, <2>7 DEF Inv, TypeInv, PcType
  <2>10. CursorInv'
    BY <1>1, <2>4, <2>6, <2>7 DEF Inv, CursorInv, OffsetsInside, Size
  <2>11. LoopInv'
    <3>1. pushing' => pc' \in {"args", "method"}
      <4>1. CASE pc = "args"
        BY <1>1, <2>1, <4>1 DEF Overrun
      <4>2. CASE pc # "args"
        BY <1>1, <2>1, <4>2
      <4>3. QED
        BY <4>1, <4>2
    <3>2. QED
      BY <1>1, <2>6, <2>8, <3>1 DEF Inv, LoopInv
  <2>12. QED
    BY <2>9, <2>10, <2>11 DEF Inv
<1>4. QED
  BY <1>2, <1>3

(* read_push keeps it, and with it the bound on the next argument.         *)
LEMMA ReadPushInv == Inv /\ pc \in ScriptPc /\ ReadPush => Inv'
<1> SUFFICES ASSUME Inv, pc \in ScriptPc, ReadPush PROVE Inv'
  OBVIOUS
<1>1. UNCHANGED <<raw, status, off, tx, joined>>
  BY DEF ReadPush
<1>2. CASE Fails(PUSH, 1, "SCRIPT_PARSING_ERROR_OPCODE_PUSH2")
  BY <1>1, <1>2, FailsInv
<1>3. CASE ~Fails(PUSH, 1, "SCRIPT_PARSING_ERROR_OPCODE_PUSH2")
  <2>1. /\ Reads(PUSH, 1) /\ soff' = soff + 2 /\ pushing' = FALSE
        /\ UNCHANGED <<call, calls, scan, ignored>>
        /\ \/ /\ pc = "args" /\ ix' = ix + 1
              /\ pc' = IF ix + 1 < calls[call].args_len THEN "args" ELSE "method"
           \/ pc = "method" /\ pc' = "name" /\ ix' = ix
    BY <1>3 DEF ReadPush
  <2>2. /\ calls[call].args_len \in 0 .. 255 /\ ix \in -1 .. 255
        /\ pc = "args" => ix \in 0 .. 254
    BY DEF Inv, TypeInv, CallType, LoopInv
  <2>3. /\ ix' \in -1 .. 255 /\ pc' \in {"args", "method", "name"}
        /\ pc' = "args" => ix' \in 0 .. 254 /\ ix' < calls[call].args_len
    <3>1. CASE pc = "args"
      BY <2>1, <2>2, <3>1
    <3>2. CASE pc = "method" /\ pc' = "name" /\ ix' = ix
      BY <2>2, <3>2
    <3>3. QED
      BY <2>1, <3>1, <3>2
  <2>4. soff' \in Nat /\ soff' <= Size
    BY <2>1, SizeType DEF Inv, TypeInv, Reads
  <2>5. TypeInv'
    BY <1>1, <2>1, <2>3, <2>4 DEF Inv, TypeInv, PcType
  <2>6. CursorInv'
    BY <1>1, <2>1, <2>3, <2>4 DEF Inv, CursorInv, OffsetsInside, Size
  <2>7. LoopInv'
    BY <1>1, <2>1, <2>3 DEF Inv, LoopInv, ScriptPc
  <2>8. QED
    BY <2>5, <2>6, <2>7 DEF Inv
<1>4. QED
  BY <1>2, <1>3

(* read_ctx keeps it.                                                      *)
LEMMA ReadCtxInv == Inv /\ ReadCtx => Inv'
<1> SUFFICES ASSUME Inv, ReadCtx PROVE Inv'
  OBVIOUS
<1>1. pc = "ctx" /\ pc \in ScriptPc /\ UNCHANGED <<raw, status, off, tx, joined>>
  BY DEF ReadCtx, ScriptPc
<1>2. CASE Fails(CTX, 2, "SCRIPT_PARSING_ERROR_OPCODE_CTX45")
  BY <1>1, <1>2, FailsInv
<1>3. CASE ~Fails(CTX, 2, "SCRIPT_PARSING_ERROR_OPCODE_CTX45")
  <2>1. /\ Reads(CTX, 2) /\ soff' = soff + 3 /\ pc' = "switch"
        /\ UNCHANGED <<call, calls, ix, pushing, scan>>
    BY <1>3 DEF ReadCtx
  <2>2. soff' \in Nat /\ soff' <= Size
    BY <2>1, SizeType DEF Inv, TypeInv, Reads
  <2>3. TypeInv'
    BY <1>1, <2>1, <2>2 DEF Inv, TypeInv, PcType
  <2>4. CursorInv' /\ LoopInv'
    BY <1>1, <2>1, <2>2 DEF Inv, CursorInv, OffsetsInside, Size, LoopInv
  <2>5. QED
    BY <2>3, <2>4 DEF Inv
<1>4. QED
  BY <1>2, <1>3

(* The last instruction of a call keeps it.                                *)
LEMMA ReadLastInv ==
  ASSUME Inv, NEW opcode, NEW n \in Nat, NEW wrong, pc \in ScriptPc,
         ReadLast(opcode, n, wrong)
  PROVE  Inv'
<1>1. UNCHANGED <<raw, status, off, tx, joined>>
  BY DEF ReadLast
<1>2. CASE Fails(opcode, n, wrong)
  BY <1>1, <1>2, FailsInv
<1>3. CASE ~Fails(opcode, n, wrong)
  <2>1. /\ Reads(opcode, n) /\ EndCall("PARSING_OK", soff + 1 + n)
        /\ UNCHANGED <<calls, ix>>
    BY <1>3 DEF ReadLast
  <2>2. soff + 1 + n \in Nat /\ soff + 1 + n <= Size
    BY <2>1 DEF Inv, TypeInv, Reads
  <2>3. QED
    BY <1>1, <2>1, <2>2, EndCallInv
<1>4. QED
  BY <1>2, <1>3

-----------------------------------------------------------------------------
(* The look-aheads.                                                        *)
LEMMA ScannedInv ==
  ASSUME Inv, Scanning, NEW args \in Int, NEW isInterop, Scanned(args, isInterop)
  PROVE  Inv'
<1>1. UNCHANGED <<raw, status, off, pushing, soff, joined>>
  BY DEF Scanned
<1>2. CASE pc = "count"
  <2>1. /\ calls' = [calls EXCEPT ![call].args_len = args % 256]
        /\ ix' = 0 /\ UNCHANGED <<call, scan, tx>>
        /\ pc' = IF args % 256 = 0 THEN "method" ELSE "args"
    BY <1>2 DEF Scanned
  <2> DEFINE n == args % 256
  <2>2. n \in 0 .. 255
    OBVIOUS
  <2> HIDE DEF n
  <2>3. /\ calls \in [Calls -> CallType] /\ call \in Calls /\ calls[call] \in CallType
    BY DEF Inv, TypeInv
  <2>4. calls' \in [Calls -> CallType] /\ calls'[call].args_len = n
    <3>1. calls' = [calls EXCEPT ![call].args_len = n]
      BY <2>1 DEF n
    <3>2. [calls[call] EXCEPT !.args_len = n] \in CallType
      BY <2>2, <2>3 DEF CallType
    <3>3. QED
      BY <3>1, <3>2, <2>3 DEF CallType
  <2>5. pc' \in {"method", "args"} /\ (pc' = "args" => n # 0)
    BY <2>1 DEF n
  <2>6. TypeInv'
    BY <1>1, <2>1, <2>4, <2>5 DEF Inv, TypeInv, PcType
  <2>7. CursorInv'
    BY <1>1, <2>1, <2>5 DEF Inv, CursorInv, OffsetsInside, Size
  <2>8. LoopInv'
    BY <1>1, <1>2, <2>1, <2>2, <2>4, <2>5 DEF Inv, LoopInv
  <2>9. QED
    BY <2>6, <2>7, <2>8 DEF Inv
<1>3. CASE pc = "interop"
  <2>1. /\ call' \in Calls /\ pc' = "count" /\ UNCHANGED <<calls, ix>>
        /\ scan' = [off |-> soff, args |-> 0]
        /\ tx' = [tx EXCEPT !.type = IF isInterop THEN "TRANSFER" ELSE "CUSTOM"]
    BY <1>3 DEF Scanned, Calls
  <2>2. tx' \in TxType /\ tx'.script = tx.script
    BY <2>1, ZenonT(40) DEF Inv, TypeInv, TxType
  <2>3. TypeInv'
    BY <1>1, <2>1, <2>2 DEF Inv, TypeInv, PcType
  <2>4. CursorInv'
    BY <1>1, <2>1, <2>2 DEF Inv, CursorInv, OffsetsInside, Size
  <2>5. LoopInv'
    BY <1>1, <1>3, <2>1 DEF Inv, LoopInv
  <2>6. QED
    BY <2>3, <2>4, <2>5 DEF Inv
<1>4. QED
  BY <1>2, <1>3 DEF Scanning

(* The look-ahead moves inside the script.                                 *)
LEMMA ScanOnInv ==
  ASSUME Inv, Scanning, NEW o \in Nat, o <= Size, NEW args \in Nat, ScanOn(o, args)
  PROVE  Inv'
<1>1. /\ UNCHANGED <<raw, pc, status, off, tx, call, calls, ix, pushing, soff, joined>>
      /\ scan' = [off |-> o, args |-> args]
  BY DEF ScanOn
<1>2. TypeInv'
  BY <1>1 DEF Inv, TypeInv
<1>3. CursorInv'
  BY <1>1 DEF Inv, CursorInv, OffsetsInside, Size, Scanning
<1>4. LoopInv'
  BY <1>1 DEF Inv, LoopInv
<1>5. QED
  BY <1>2, <1>3, <1>4 DEF Inv

(* Every step of the look-ahead keeps the invariant.                       *)
LEMMA ScanInv ==
  ASSUME Inv,
         ScanLoad \/ ScanPush \/ ScanCtx \/ ScanExtcall \/ ScanOther \/ ScanEnd
  PROVE  Inv'
<1>1. scan.args \in Nat /\ scan.off \in Nat /\ Size \in Nat
  BY SizeType DEF Inv, TypeInv
<1>0. /\ scan.args \in Int /\ scan.args + 1 \in Int
      /\ scan.args - 1 \in Int /\ scan.args - 2 \in Int
  BY <1>1
<1>2. CASE ScanLoad
  <2>1. Scanning
    BY <1>2 DEF ScanLoad, ScanSees
  <2>2. CASE Scanned(scan.args + 1, FALSE)
    BY <1>0, <2>1, <2>2, ScannedInv, Zenon
  <2>3. CASE /\ scan.off + 4 <= Size
             /\ ScanOn(Behind(scan.off + 4, Op(scan.off + 3)), scan.args + 1)
    <3>1. TypeInv
      BY DEF Inv
    <3>2. scan.off + 3 \in Nat /\ scan.off + 4 \in Nat /\ scan.args + 1 \in Nat
      BY <1>1
    <3>3. Op(scan.off + 3) \in Nat
      BY <3>1, <3>2, OpType
    <3>4. /\ Behind(scan.off + 4, Op(scan.off + 3)) \in Nat
          /\ Behind(scan.off + 4, Op(scan.off + 3)) <= Size
      BY <1>1, <2>3, <3>2, <3>3, BehindInside
    <3>5. QED
      BY <2>1, <2>3, <3>2, <3>4, ScanOnInv
  <2>4. QED
    BY <1>2, <2>2, <2>3 DEF ScanLoad
<1>3. CASE ScanPush
  <2>1. Scanning
    BY <1>3 DEF ScanPush, ScanSees
  <2>2. CASE Scanned(scan.args, FALSE)
    BY <1>0, <2>1, <2>2, ScannedInv, Zenon
  <2>3. CASE scan.off + 2 <= Size /\ ScanOn(scan.off + 2, scan.args)
    BY <1>1, <2>1, <2>3, ScanOnInv
  <2>4. QED
    BY <1>3, <2>2, <2>3 DEF ScanPush
<1>4. CASE ScanCtx
  BY <1>0, <1>4, ScannedInv, Zenon DEF ScanCtx, ScanSees
<1>5. CASE ScanExtcall
  BY <1>0, <1>5, ScannedInv, Zenon DEF ScanExtcall, ScanSees
<1>6. CASE ScanOther
  <2>1. Scanning /\ scan.off < Size /\ ScanOn(scan.off + 1, scan.args)
    BY <1>6 DEF ScanOther, ScanSees
  <2>2. QED
    BY <1>1, <2>1, ScanOnInv
<1>7. CASE ScanEnd
  BY <1>0, <1>7, ScannedInv, Zenon DEF ScanEnd
<1>8. QED
  BY <1>2, <1>3, <1>4, <1>5, <1>6, <1>7

-----------------------------------------------------------------------------
(* The fields of the transaction.                                          *)
HeadPc == {"nexus", "chain", "script", "payload"}

(* A field behind its length keeps it, whether accepted or refused.        *)
LEMMA FieldInv ==
  ASSUME Inv, NEW name \in HeadPc, NEW max \in Nat,
         NEW zero, NEW overflow, NEW parsing,
         NEW next \in PcType \ {"start", "nexus", "args"},
         next \in {"chain", "script"} => name \in {"nexus", "chain"},
         Field(name, max, zero, overflow, parsing, next)
  PROVE  Inv'
<1> DEFINE length == Varint(off)
           end == length.next + length.value
           slice == [at |-> length.next, len |-> length.value]
<1>1. /\ pc = name
      /\ UNCHANGED <<raw, call, calls, ix, pushing, soff, scan, joined>>
  BY DEF Field, scriptVars
<1>2. \/ /\ pc' = "done"
         /\ off' = length.next /\ UNCHANGED tx
      \/ /\ end <= Len(raw) /\ pc' = next
         /\ off' = end /\ tx' = [tx EXCEPT ![name] = slice]
  BY DEF Field, Return
<1>3. /\ length.value \in Nat /\ length.next \in Nat
      /\ off <= length.next /\ length.next <= Len(raw)
  BY VarintInside DEF Inv
<1>4. slice \in Slice /\ end \in Nat
  BY <1>3 DEF Slice
<1>5. slice.at + slice.len = end
  OBVIOUS
<1> HIDE DEF length, end, slice
<1>6. tx \in TxType /\ tx.script \in Slice
  BY DEF Inv, TypeInv, TxType
<1>7. tx' \in TxType
  <2>1. CASE tx' = tx
    BY <1>6, <2>1
  <2>2. CASE tx' = [tx EXCEPT ![name] = slice]
    BY <1>4, <1>6, <2>2 DEF HeadPc, TxType
  <2>3. QED
    BY <1>2, <2>1, <2>2
<1>8. \/ tx'.script = tx.script
      \/ name = "script" /\ tx'.script = slice /\ end <= Len(raw)
  BY <1>2, <1>6 DEF HeadPc, TxType
<1>9. /\ off' \in Nat /\ off' <= Len(raw)
      /\ pc' \in PcType \ {"start", "nexus", "args"}
      /\ pc' \in {"chain", "script"} => pc \in {"nexus", "chain"}
  BY <1>1, <1>2, <1>3, <1>4 DEF Inv, TypeInv, PcType
<1>10. TypeInv'
  BY <1>1, <1>7, <1>9 DEF Inv, TypeInv
<1>11. CursorInv'
  <2>1. tx'.script.at + tx'.script.len <= Len(raw)
    BY <1>5, <1>8 DEF Inv, CursorInv, OffsetsInside
  <2>2. /\ soff' <= tx'.script.len
        /\ scan'.off <= tx'.script.len
    <3>1. CASE tx'.script = tx.script
      BY <1>1, <3>1 DEF Inv, CursorInv, OffsetsInside, Size
    <3>2. CASE name = "script" /\ tx'.script = slice
      <4>1. soff' = 0 /\ scan'.off = 0
        BY <1>1, <3>2 DEF Inv, CursorInv
      <4>2. QED
        BY <1>4, <3>2, <4>1 DEF Slice
    <3>3. QED
      BY <1>8, <3>1, <3>2
  <2>3. pc' \in {"start", "nexus", "chain", "script"} => soff' = 0 /\ scan'.off = 0
    BY <1>1, <1>9 DEF Inv, CursorInv
  <2>4. QED
    BY <1>1, <1>9, <2>1, <2>2, <2>3 DEF CursorInv, OffsetsInside, Size
<1>12. LoopInv'
  BY <1>1, <1>9 DEF Inv, LoopInv, HeadPc
<1>13. QED
  BY <1>10, <1>11, <1>12 DEF Inv

(* The check of the length keeps it.                                       *)
LEMMA CheckLengthInv == Inv /\ CheckLength => Inv'
<1> SUFFICES ASSUME Inv, CheckLength PROVE Inv'
  OBVIOUS
<1>1. /\ UNCHANGED <<raw, off, tx, call, calls, ix, pushing, soff, scan, joined>>
      /\ pc = "start" /\ pc' \in {"done", "nexus"}
  BY DEF CheckLength, Return, scriptVars
<1>2. TypeInv'
  BY <1>1 DEF Inv, TypeInv, PcType
<1>3. CursorInv' /\ LoopInv'
  BY <1>1 DEF Inv, CursorInv, OffsetsInside, Size, LoopInv
<1>4. QED
  BY <1>2, <1>3 DEF Inv

(* The expiration, read or not, keeps it.                                  *)
LEMMA ReadExpirationInv == Inv /\ ReadExpiration => Inv'
<1> SUFFICES ASSUME Inv, ReadExpiration PROVE Inv'
  OBVIOUS
<1> DEFINE bytes == IF off + 4 <= Len(raw) THEN SubSeq(raw, off + 1, off + 4)
                                          ELSE <<0, 0, 0, 0>>
<1>1. /\ UNCHANGED <<raw, status, call, calls, ix, pushing, soff, scan, joined>>
      /\ pc = "expiration" /\ pc' = "payload"
      /\ off' = IF off + 4 <= Len(raw) THEN off + 4 ELSE off
      /\ tx' = [tx EXCEPT !.expiration = bytes]
  BY DEF ReadExpiration
<1>2. /\ raw \in Seq(0 .. 255) /\ off \in Nat /\ off <= Len(raw) /\ Len(raw) \in Nat
      /\ tx \in TxType
  BY LenProperties DEF Inv, TypeInv, CursorInv, OffsetsInside
<1>3. bytes \in [1 .. 4 -> 0 .. 255]
  <2>1. CASE off + 4 <= Len(raw)
    <3>1. bytes = SubSeq(raw, off + 1, off + 4)
      BY <2>1
    <3>2. \A i \in off + 1 .. off + 4 : raw[i] \in 0 .. 255
      <4>1. \A i \in off + 1 .. off + 4 : i \in 1 .. Len(raw)
        BY <1>2, <2>1
      <4>2. QED
        BY <1>2, <4>1, ElementOfSeq
    <3>4. \A m, n \in Int : (\A i \in m .. n : raw[i] \in 0 .. 255) =>
            /\ SubSeq(raw, m, n) \in Seq(0 .. 255)
            /\ Len(SubSeq(raw, m, n)) = IF m <= n THEN n - m + 1 ELSE 0
      BY SubSeqProperties, Zenon
    <3> HIDE DEF bytes
    <3> DEFINE m == off + 1
               n == off + 4
    <3>5. m \in Int /\ n = m + 3
      BY <1>2
    <3>6. bytes = SubSeq(raw, m, n)
      BY <3>1
    <3>7. \A i \in m .. n : raw[i] \in 0 .. 255
      BY <3>2
    <3> HIDE DEF m, n
    <3>8. bytes \in Seq(0 .. 255) /\ Len(bytes) = 4
      BY <3>4, <3>5, <3>6, <3>7
    <3>9. QED
      BY <3>8, LenProperties
  <2>2. CASE ~(off + 4 <= Len(raw))
    BY <2>2
  <2>3. QED
    BY <2>1, <2>2
<1> HIDE DEF bytes
<1>4. tx' \in TxType /\ tx'.script = tx.script
  BY <1>1, <1>2, <1>3, ZenonT(40) DEF TxType
<1>5. off' \in Nat /\ off' <= Len(raw)
  BY <1>1, <1>2
<1>6. TypeInv'
  BY <1>1, <1>4, <1>5 DEF Inv, TypeInv, PcType
<1>7. CursorInv'
  BY <1>1, <1>4, <1>5 DEF Inv, CursorInv, OffsetsInside, Size
<1>8. LoopInv'
  BY <1>1 DEF Inv, LoopInv
<1>9. QED
  BY <1>6, <1>7, <1>8 DEF Inv

(* Taking the fields from the calls keeps it.                              *)
LEMMA SetFieldsInv == Inv /\ SetFields => Inv'
<1> SUFFICES ASSUME Inv, SetFields PROVE Inv'
  OBVIOUS
<1>1. /\ UNCHANGED <<raw, off, call, calls, pushing, soff, scan, joined>>
      /\ pc = "fields" /\ pc' \in {"done", "join"}
  BY DEF SetFields, Return
<1>2. \A c \in Calls : calls[c] \in CallType
  BY DEF Inv, TypeInv
<1>3. \A c \in Calls, i \in 0 .. 3 : calls[c].args[i] \in Slice
  BY <1>2 DEF CallType, MAX_ARGS_LEN
<1>4. calls["contract_call"] \in CallType /\ tx \in TxType
  BY <1>2 DEF Calls, Inv, TypeInv
<1>5. tx' \in TxType /\ tx'.script = tx.script
  <2>1. /\ calls["allow_gas"].args[0] \in Slice /\ calls["allow_gas"].args[1] \in Slice
        /\ calls["allow_gas"].args[3] \in Slice
    BY <1>3 DEF Calls
  <2>2. \A i \in 0 .. 3 : calls["transfer_tokens"].args[i] \in Slice
    BY <1>3 DEF Calls
  <2>3. calls["contract_call"].name \in Slice /\ calls["contract_call"].method \in Slice
    BY <1>4 DEF CallType
  <2> DEFINE gas == calls["allow_gas"].args
             transfer == calls["transfer_tokens"].args
             custom == calls["contract_call"]
  <2>4. CASE tx.type = "TRANSFER"
    <3>1. tx' = [[tx EXCEPT !.gas_price = gas[1], !.gas_limit = gas[0]] EXCEPT
                   !.from = transfer[3], !.to = transfer[2],
                   !.token = transfer[1], !.value = transfer[0]]
      BY <2>4 DEF SetFields
    <3>2. /\ transfer[0] \in Slice /\ transfer[1] \in Slice
          /\ transfer[2] \in Slice /\ transfer[3] \in Slice
      BY <2>2
    <3>3. gas[0] \in Slice /\ gas[1] \in Slice
      BY <2>1
    <3> DEFINE a == gas[0]
               b == gas[1]
               c == transfer[0]
               d == transfer[1]
               e == transfer[2]
               f == transfer[3]
    <3>4. tx' = [[tx EXCEPT !.gas_price = b, !.gas_limit = a] EXCEPT
                   !.from = f, !.to = e, !.token = d, !.value = c]
      BY <3>1
    <3>5. a \in Slice /\ b \in Slice /\ c \in Slice /\ d \in Slice /\ e \in Slice /\ f \in Slice
      BY <3>2, <3>3
    <3> HIDE DEF a, b, c, d, e, f
    <3>6. QED
      BY <1>4, <3>4, <3>5, ZenonT(40) DEF TxType
  <2>5. CASE tx.type = "CUSTOM"
    <3>1. tx' = [[tx EXCEPT !.gas_price = gas[1], !.gas_limit = gas[0]] EXCEPT
                   !.from = gas[3], !.name = custom.name, !.method = custom.method]
      BY <2>5 DEF SetFields
    <3>2. /\ gas[0] \in Slice /\ gas[1] \in Slice /\ gas[3] \in Slice
          /\ custom.name \in Slice /\ custom.method \in Slice
      BY <2>1, <2>3
    <3> DEFINE a == gas[0]
               b == gas[1]
               c == gas[3]
               d == custom.name
               e == custom.method
    <3>3. tx' = [[tx EXCEPT !.gas_price = b, !.gas_limit = a] EXCEPT
                   !.from = c, !.name = d, !.method = e]
      BY <3>1
    <3>4. a \in Slice /\ b \in Slice /\ c \in Slice /\ d \in Slice /\ e \in Slice
      BY <3>2
    <3> HIDE DEF a, b, c, d, e
    <3> DEFINE common == [tx EXCEPT !.gas_price = b, !.gas_limit = a]
    <3>5. common \in TxType /\ common.script = tx.script
      BY <1>4, <3>4 DEF TxType
    <3>6. tx' = [common EXCEPT !.from = c, !.name = d, !.method = e]
      BY <3>3
    <3> HIDE DEF common
    <3>7. tx'.script = common.script
      BY <3>5, <3>6 DEF TxType
    <3>8. tx' \in TxType
      BY <3>4, <3>5, <3>6, ZenonT(40) DEF TxType
    <3>9. QED
      BY <3>5, <3>7, <3>8
  <2>6. QED
    BY <1>4, <2>4, <2>5 DEF TxType
<1>6. ix' \in -1 .. 255
  <2>1. ix' = ix \/ ix' = calls["contract_call"].args_len - 1
    BY DEF SetFields
  <2>2. ix \in -1 .. 255 /\ calls["contract_call"].args_len \in 0 .. 255
    BY <1>4 DEF Inv, TypeInv, CallType
  <2>3. QED
    BY <2>1, <2>2
<1>7. TypeInv'
  BY <1>1, <1>5, <1>6 DEF Inv, TypeInv, PcType
<1>8. CursorInv' /\ LoopInv'
  BY <1>1, <1>5 DEF Inv, CursorInv, OffsetsInside, Size, LoopInv
<1>9. QED
  BY <1>7, <1>8 DEF Inv

(* What process_load_push_array copies leaves room for a comma and the NUL.*)
LEMMA CopiedFits ==
  ASSUME NEW len \in Nat, NEW remaining \in Nat, remaining >= 2
  PROVE  Copied(len, remaining) \in Nat /\ Copied(len, remaining) <= remaining - 2
BY DEF Copied

(* The bytes an argument stands for are bytes.                             *)
LEMMA TextType ==
  ASSUME raw \in Seq(0 .. 255), NEW s \in Slice
  PROVE  Text(s) \in Seq(0 .. 255) /\ Len(Text(s)) = s.len
<1>1. s.at \in Nat /\ s.len \in Nat
  BY DEF Slice
<1>2. \A k \in 1 .. s.len : Byte(s.at + k - 1) \in 0 .. 255
  <2>1. \A k \in 1 .. s.len : s.at + k - 1 \in Nat
    BY <1>1
  <2>2. QED
    BY <2>1, ByteType
<1>3. Text(s) \in [1 .. s.len -> 0 .. 255]
  BY <1>2 DEF Text
<1>4. Text(s) \in Seq(0 .. 255)
  <2>1. Seq(0 .. 255) = UNION {[1 .. n -> 0 .. 255] : n \in Nat}
    BY SeqDef, Zenon
  <2> HIDE DEF Text
  <2>2. QED
    BY <1>1, <1>3, <2>1, ZenonT(40)
<1>5. Len(Text(s)) \in Nat /\ 1 .. Len(Text(s)) = 1 .. s.len
  BY <1>3, <1>4, LenProperties
<1>6. QED
  BY <1>1, <1>4, <1>5

(* Every argument that is listed leaves room for the NUL.                  *)
LEMMA JoinArgInv == Inv /\ JoinArg => Inv'
<1> SUFFICES ASSUME Inv, JoinArg PROVE Inv'
  OBVIOUS
<1>1. /\ UNCHANGED <<raw, off, tx, call, calls, pushing, soff, scan>>
      /\ pc = "join" /\ ix >= 0
  BY DEF JoinArg, Overrun
<1>2. CASE pc' = "overrun" /\ UNCHANGED <<ix, joined>>
  <2>1. TypeInv' /\ CursorInv' /\ LoopInv'
    BY <1>1, <1>2 DEF Inv, TypeInv, CursorInv, OffsetsInside, Size, LoopInv, PcType
  <2>2. QED
    BY <2>1 DEF Inv
<1>3. CASE ~(pc' = "overrun" /\ UNCHANGED <<ix, joined>>)
  <2> DEFINE arg == calls["contract_call"].args[ix]
             remaining == OUTPUT_LEN - Len(joined)
             to_copy == Copied(arg.len, remaining)
             copied == [arg EXCEPT !.len = to_copy]
             text == joined \o Text(copied)
  <2>1. /\ ix < MAX_ARGS_LEN
        /\ joined' = IF ix > 0 THEN Append(text, COMMA) ELSE text
        /\ \/ /\ ix > 0 /\ OUTPUT_LEN - Len(joined') > 1
              /\ ix' = ix - 1 /\ pc' = pc
           \/ pc' = "done" /\ ix' = ix
    BY <1>3 DEF JoinArg, Overrun, Return
  <2>2. /\ joined \in Seq(0 .. 255) /\ Len(joined) \in Nat
        /\ raw \in Seq(0 .. 255) /\ ix \in -1 .. 255
    BY LenProperties DEF Inv, TypeInv
  <2>3. remaining \in Nat /\ remaining >= 2
    BY <1>1, <2>2 DEF Inv, LoopInv, OUTPUT_LEN
  <2>4. arg \in Slice
    <3>1. ix \in 0 .. MAX_ARGS_LEN - 1
      BY <1>1, <2>1, <2>2 DEF MAX_ARGS_LEN
    <3>2. calls["contract_call"] \in CallType
      BY DEF Inv, TypeInv, Calls
    <3>3. QED
      BY <3>1, <3>2 DEF CallType
  <2>5. to_copy \in Nat /\ to_copy <= remaining - 2
    <3>1. arg.len \in Nat
      BY <2>4 DEF Slice
    <3> HIDE DEF arg, remaining
    <3>2. QED
      BY <2>3, <3>1, CopiedFits
  <2>6. copied \in Slice /\ copied.len = to_copy
    <3> HIDE DEF arg, to_copy
    <3>1. QED
      BY <2>4, <2>5 DEF Slice
  <2>7. text \in Seq(0 .. 255) /\ Len(text) = Len(joined) + to_copy
    <3> HIDE DEF copied, to_copy
    <3>1. Text(copied) \in Seq(0 .. 255) /\ Len(Text(copied)) = to_copy
      BY <2>2, <2>6, TextType
    <3>2. QED
      BY <2>2, <3>1, ConcatProperties, ZenonT(40)
  <2>8. joined' \in Seq(0 .. 255) /\ Len(joined') <= Len(joined) + to_copy + 1
    <3> HIDE DEF text, to_copy
    <3>1. COMMA \in 0 .. 255
      BY DEF COMMA
    <3>2. Append(text, COMMA) \in Seq(0 .. 255) /\ Len(Append(text, COMMA)) = Len(text) + 1
      BY <2>7, <3>1, AppendProperties
    <3>3. QED
      BY <2>1, <2>2, <2>5, <2>7, <3>2
  <2>9. Len(joined') <= OUTPUT_LEN - 1
    <3> HIDE DEF to_copy
    <3>1. Len(joined') \in Nat
      BY <2>8, LenProperties
    <3>2. QED
      BY <2>2, <2>5, <2>8, <3>1 DEF OUTPUT_LEN
  <2> HIDE DEF text, to_copy, remaining, arg, copied
  <2>10. /\ ix' \in -1 .. 255 /\ pc' \in {"join", "done"}
         /\ pc' # "done" => Len(joined') < OUTPUT_LEN - 1
    <3>1. Len(joined') \in Nat
      BY <2>8, LenProperties
    <3>2. OUTPUT_LEN = 240
      BY DEF OUTPUT_LEN
    <3>3. CASE /\ ix > 0 /\ OUTPUT_LEN - Len(joined') > 1
               /\ ix' = ix - 1 /\ pc' = pc
      BY <1>1, <2>2, <3>1, <3>2, <3>3
    <3>4. CASE pc' = "done" /\ ix' = ix
      BY <2>2, <3>4
    <3>5. QED
      BY <2>1, <3>3, <3>4
  <2>11. TypeInv'
    BY <1>1, <2>8, <2>10 DEF Inv, TypeInv, PcType
  <2>12. CursorInv'
    BY <1>1, <2>10 DEF Inv, CursorInv, OffsetsInside, Size
  <2>13. LoopInv'
    <3>1. Len(joined') \in Nat
      BY <2>8, LenProperties
    <3>2. QED
      BY <1>1, <2>9, <2>10, <3>1 DEF Inv, LoopInv, OUTPUT_LEN
  <2>14. QED
    BY <2>11, <2>12, <2>13 DEF Inv
<1>4. QED
  BY <1>2, <1>3

(* A call without arguments leaves the listing as it is.                   *)
LEMMA JoinNothingInv == Inv /\ JoinNothing => Inv'
<1> SUFFICES ASSUME Inv, JoinNothing PROVE Inv'
  OBVIOUS
<1>1. /\ UNCHANGED <<raw, off, tx, call, calls, ix, pushing, soff, scan, joined>>
      /\ pc = "join" /\ pc' = "done"
  BY DEF JoinNothing, Return, scriptVars
<1>2. TypeInv'
  BY <1>1 DEF Inv, TypeInv, PcType
<1>3. CursorInv' /\ LoopInv'
  BY <1>1 DEF Inv, CursorInv, OffsetsInside, Size, LoopInv
<1>4. QED
  BY <1>2, <1>3 DEF Inv

-----------------------------------------------------------------------------
(* The invariant holds at first and is kept by every step.                 *)
LEMMA InitInv == Init => Inv
<1> SUFFICES ASSUME Init PROVE Inv
  OBVIOUS
<1>1. raw \in Seq(0 .. 255)
  BY InputsAssumption DEF Init
<1>2. Nothing \in Slice
  BY DEF Nothing, Slice
<1>3. tx \in TxType /\ tx.script.at = 0 /\ tx.script.len = 0
  <2>1. tx = ZeroTransaction
    BY DEF Init
  <2>2. <<0, 0, 0, 0>> \in [1 .. 4 -> 0 .. 255]
    OBVIOUS
  <2>3. tx.script = Nothing
    BY <2>1 DEF ZeroTransaction
  <2>4. tx \in TxType
    BY <1>2, <2>1, <2>2 DEF ZeroTransaction, TxType
  <2>5. QED
    BY <2>3, <2>4 DEF Nothing
<1>4. calls \in [Calls -> CallType]
  <2>1. \A n \in 0 .. 255 : ZeroCall(n) \in CallType
    BY <1>2 DEF ZeroCall, CallType
  <2>2. calls = [c \in Calls |-> ZeroCall(IF c = "spend_gas" THEN 1 ELSE MAX_ARGS_LEN)]
    BY DEF Init
  <2>3. \A c \in Calls : (IF c = "spend_gas" THEN 1 ELSE MAX_ARGS_LEN) \in 0 .. 255
    BY DEF MAX_ARGS_LEN
  <2>4. QED
    BY <2>1, <2>2, <2>3
<1>5. joined \in Seq(0 .. 255) /\ Len(joined) = 0
  BY EmptySeq DEF Init
<1>6. Len(raw) \in Nat
  BY <1>1, LenProperties
<1>7. TypeInv
  <2>1. pc \in PcType /\ call \in Calls
    BY DEF Init, PcType, Calls
  <2>2. off \in Nat /\ ix \in -1 .. 255 /\ soff \in Nat
    <3>1. off = 0 /\ ix = 0 /\ soff = 0
      BY DEF Init
    <3>2. 0 \in -1 .. 255
      OBVIOUS
    <3>3. QED
      BY <3>1, <3>2
  <2>5. pushing \in BOOLEAN
    <3>1. pushing = FALSE
      BY DEF Init
    <3>2. QED
      BY <3>1
  <2>3. scan \in [off : Nat, args : Nat]
    BY DEF Init
  <2>4. QED
    BY <1>1, <1>3, <1>4, <1>5, <2>1, <2>2, <2>3, <2>5 DEF TypeInv
<1>8. CursorInv
  BY <1>3, <1>6 DEF Init, CursorInv, OffsetsInside, Size
<1>9. LoopInv
  BY <1>5 DEF Init, LoopInv, OUTPUT_LEN
<1>10. QED
  BY <1>7, <1>8, <1>9 DEF Inv

(* The four fields of a transaction.                                       *)
LEMMA FieldsInv == Inv /\ (ReadNexus \/ ReadChain \/ ReadScript \/ ReadPayload) => Inv'
<1> SUFFICES ASSUME Inv PROVE ReadNexus \/ ReadChain \/ ReadScript \/ ReadPayload => Inv'
  OBVIOUS
<1>1. /\ NEXUS_LEN \in Nat /\ CHAIN_LEN \in Nat /\ SCRIPT_LEN \in Nat /\ PAYLOAD_LEN \in Nat
      /\ HeadPc = {"nexus", "chain", "script", "payload"}
      /\ {"chain", "script", "count", "fields"} \subseteq PcType \ {"start", "nexus", "args"}
  BY DEF HeadPc, PcType, NEXUS_LEN, CHAIN_LEN, SCRIPT_LEN, PAYLOAD_LEN, MAX_TRANSACTION_LEN
<1>2. ReadNexus => Inv'
  BY <1>1, FieldInv DEF ReadNexus
<1>3. ReadChain => Inv'
  BY <1>1, FieldInv DEF ReadChain
<1>4. ReadScript => Inv'
  BY <1>1, FieldInv DEF ReadScript
<1>5. ReadPayload => Inv'
  BY <1>1, FieldInv DEF ReadPayload
<1>6. QED
  BY <1>2, <1>3, <1>4, <1>5

(* Every step keeps the invariant.                                         *)
LEMMA NextInv == Inv /\ [Next]_vars => Inv'
<1> SUFFICES ASSUME Inv, [Next]_vars PROVE Inv'
  OBVIOUS
<1>1. CASE ReadLoad
  BY <1>1, ReadLoadInv
<1>2. CASE ReadPush
  <2>1. pc \in ScriptPc
    BY <1>2 DEF ReadPush, ScriptPc, Inv, LoopInv
  <2>2. QED
    BY <1>2, <2>1, ReadPushInv
<1>3. CASE ReadCtx
  BY <1>3, ReadCtxInv
<1>4. CASE ReadSwitch
  BY <1>4, ReadLastInv DEF ReadSwitch, ScriptPc
<1>5. CASE ReadExtcall
  BY <1>5, ReadLastInv DEF ReadExtcall, ScriptPc
<1>6. CASE ReadEnd
  BY <1>6, ReadLastInv DEF ReadEnd, ScriptPc
<1>7. CASE ScanLoad \/ ScanPush \/ ScanCtx \/ ScanExtcall \/ ScanOther \/ ScanEnd
  BY <1>7, ScanInv
<1>8. CASE ReadNexus \/ ReadChain \/ ReadScript \/ ReadPayload
  BY <1>8, FieldsInv
<1>9. CASE CheckLength \/ ReadExpiration
  BY <1>9, CheckLengthInv, ReadExpirationInv
<1>10. CASE SetFields \/ JoinArg \/ JoinNothing
  BY <1>10, SetFieldsInv, JoinArgInv, JoinNothingInv
<1>11. CASE UNCHANGED vars
  <2>1. TypeInv' /\ CursorInv' /\ LoopInv'
    BY <1>11 DEF vars, scriptVars, Inv, TypeInv, CursorInv, OffsetsInside, Size, LoopInv
  <2>2. QED
    BY <2>1 DEF Inv
<1>12. QED
  BY <1>1, <1>2, <1>3, <1>4, <1>5, <1>6, <1>7, <1>8, <1>9, <1>10, <1>11
     DEF Next, ScriptStep, TransactionStep, Returned

(* The invariant holds throughout.                                         *)
LEMMA Invariance == Spec => []Inv
BY InitInv, NextInv, PTL DEF Spec

(* The state of the parser has its types, for every uploaded transaction.  *)
THEOREM ParserTypeCorrect == Spec => []ParserTypeOK
<1>1. Inv => ParserTypeOK
  <2> SUFFICES ASSUME Inv PROVE ParserTypeOK
    OBVIOUS
  <2>1. \A f \in DOMAIN tx \ {"expiration", "type"} : tx[f] \in Slice
    BY DEF Inv, TypeInv, TxType
  <2>2. tx.expiration \in [1 .. 4 -> 0 .. 255] /\ tx.type \in {"TRANSFER", "CUSTOM"}
    BY DEF Inv, TypeInv, TxType
  <2>3. QED
    BY <2>1, <2>2 DEF Inv, TypeInv, PcType, CallType, ParserTypeOK
<1>2. QED
  BY <1>1, Invariance, PTL

(* Whatever bytes were uploaded, the cursors of the parser and of its      *)
(* look-aheads stay inside the transaction and its script.                 *)
THEOREM CursorsStayInside == Spec => []OffsetsInside
<1>1. Inv => OffsetsInside
  BY DEF Inv, CursorInv
<1>2. QED
  BY <1>1, Invariance, PTL

(* Whatever the number and the lengths of the arguments, their listing     *)
(* leaves room for its terminating NUL.                                    *)
THEOREM OutputIsTerminated == Spec => []OutputFits
<1>1. Inv => OutputFits
  BY DEF Inv, LoopInv, OutputFits
<1>2. QED
  BY <1>1, Invariance, PTL

-----------------------------------------------------------------------------
(* No step leads back.                                                     *)

(* The place of every part in the order.                                   *)
LEMMA Parts ==
  /\ \A p \in PcType : Part(p) \in Nat /\ Part(p) <= 15
  /\ Part("start") = 0 /\ Part("nexus") = 1 /\ Part("chain") = 2 /\ Part("script") = 3
  /\ Part("count") = 4 /\ Part("args") = 5 /\ Part("method") = 6 /\ Part("name") = 7
  /\ Part("ctx") = 8 /\ Part("switch") = 9 /\ Part("extcall") = 9
  /\ Part("interop") = 10 /\ Part("end") = 10
  /\ Part("expiration") = 11 /\ Part("payload") = 12 /\ Part("fields") = 13
  /\ Part("join") = 14 /\ Part("done") = 15 /\ Part("overrun") = 15
BY DEF Part, PcType

(* The place of every call in it.                                          *)
LEMMA Earliers ==
  /\ Earlier("allow_gas") = 0 /\ Earlier("transfer_tokens") = 10
  /\ Earlier("contract_call") = 10 /\ Earlier("spend_gas") = 20
  /\ \A c \in Calls : Earlier(c) \in Nat /\ Earlier(c) <= 20
BY DEF Earlier, Calls

(* What the order of the parts relies on besides the types: is_interop is  *)
(* asked behind the first call only.                                       *)
OrderInv == pc = "interop" => call = "allow_gas"

(* A stage is one of 36.                                                   *)
LEMMA StageType ==
  ASSUME TypeInv
  PROVE  Stage \in 0 .. Earlier("spend_gas") + Part("done")
<1>1. /\ Part(pc) \in Nat /\ Part(pc) <= 15
      /\ Earlier(call) \in Nat /\ Earlier(call) <= 20
  BY Parts, Earliers DEF TypeInv
<1>2. Earlier("spend_gas") + Part("done") = 35
  BY Parts, Earliers
<1>3. QED
  BY <1>1, <1>2 DEF Stage

(* The turns that are left are a number: no loop runs over its end.        *)
LEMMA TurnsType ==
  ASSUME Inv
  PROVE  Turns \in Nat
<1>1. /\ Size \in Nat /\ scan.off \in Nat /\ scan.off <= Size
  BY SizeType DEF Inv, TypeInv, CursorInv, OffsetsInside
<1>2. /\ pc = "args" => ix \in 0 .. 254 /\ ix < calls[call].args_len
      /\ calls[call].args_len \in 0 .. 255 /\ ix \in -1 .. 255 /\ pushing \in BOOLEAN
  BY DEF Inv, TypeInv, LoopInv, CallType
<1>3. CASE pc \in {"count", "interop"}
  BY <1>1, <1>3 DEF Turns
<1>4. CASE pc = "args"
  <2>1. Turns = 2 * (calls[call].args_len - ix) - (IF pushing THEN 1 ELSE 0)
    BY <1>4 DEF Turns
  <2>2. \A m, i \in Int : i < m => 2 * (m - i) - 1 \in Nat /\ 2 * (m - i) - 0 \in Nat
    OBVIOUS
  <2> DEFINE m == calls[call].args_len
  <2>3. m \in Int /\ ix \in Int /\ ix < m
    BY <1>2, <1>4
  <2>4. Turns = 2 * (m - ix) - 1 \/ Turns = 2 * (m - ix) - 0
    BY <2>1
  <2> HIDE DEF m
  <2>5. 2 * (m - ix) - 1 \in Nat /\ 2 * (m - ix) - 0 \in Nat
    BY <2>2, <2>3
  <2>6. QED
    BY <2>4, <2>5
<1>5. CASE pc \in {"method", "join"}
  BY <1>2, <1>5 DEF Turns
<1>6. CASE pc \notin {"count", "interop", "args", "method", "join"}
  BY <1>6 DEF Turns
<1>7. QED
  BY <1>3, <1>4, <1>5, <1>6

(* A step to a later part of the same call.                                *)
LEMMA PartForward ==
  ASSUME Inv, call' = call, pc' \in PcType \ {"interop"}, Part(pc') > Part(pc)
  PROVE  Stage' > Stage /\ OrderInv'
<1>1. /\ Part(pc) \in Nat /\ Part(pc') \in Nat /\ Earlier(call) \in Nat
  BY Parts, Earliers DEF Inv, TypeInv
<1>2. Stage = Earlier(call) + Part(pc) /\ Stage' = Earlier(call) + Part(pc')
  BY DEF Stage
<1>3. QED
  BY <1>1, <1>2 DEF OrderInv

(* A turn of a loop.                                                       *)
LEMMA TurnForward ==
  ASSUME OrderInv, call' = call, pc' = pc
  PROVE  Stage' = Stage /\ OrderInv'
BY DEF Stage, OrderInv

(* A step to a later call.                                                 *)
LEMMA CallForward ==
  ASSUME Inv, pc' \in PcType \ {"interop"}, call' \in Calls,
         Part(pc) <= 10, Earlier(call') >= Earlier(call) + 10, Part(pc') >= 4
  PROVE  Stage' > Stage /\ OrderInv'
<1>1. /\ Part(pc) \in Nat /\ Part(pc') \in Nat
      /\ Earlier(call) \in Nat /\ Earlier(call') \in Nat
  BY Parts, Earliers DEF Inv, TypeInv
<1>2. Stage = Earlier(call) + Part(pc) /\ Stage' = Earlier(call') + Part(pc')
  BY DEF Stage
<1>3. QED
  BY <1>1, <1>2 DEF OrderInv

(* The end of a call leads to a later call or a later part.                *)
LEMMA EndCallForward ==
  ASSUME Inv, NEW s, NEW o, EndCall(s, o), pc \in ScriptPc \ {"count", "interop"}
  PROVE  Stage' > Stage /\ OrderInv'
<1>1. call \in Calls
  BY DEF Inv, TypeInv
<1>2. CASE pc = "end"
  <2>1. /\ pc' = "expiration"
        /\ call' = IF call \in {"transfer_tokens", "contract_call"} THEN "spend_gas" ELSE call
    BY <1>2 DEF EndCall
  <2>2. Part(pc) = 10 /\ Part(pc') = 11 /\ pc' \in PcType \ {"interop"}
    BY <1>2, <2>1, Parts DEF PcType
  <2>3. CASE call' = call
    BY <2>2, <2>3, PartForward
  <2>4. CASE call \in {"transfer_tokens", "contract_call"} /\ call' = "spend_gas"
    <3>1. Earlier(call') >= Earlier(call) + 10 /\ call' \in Calls
      BY <2>4, Earliers DEF Calls
    <3>2. QED
      BY <2>2, <3>1, CallForward
  <2>5. QED
    BY <2>1, <2>3, <2>4
<1>3. CASE pc # "end"
  <2>1. Part(pc) \in 4 .. 9
    BY <1>3, Parts DEF ScriptPc
  <2>2. CASE call = "allow_gas"
    <3>1. pc' = "interop" /\ call' = "allow_gas"
      BY <1>3, <2>2 DEF EndCall
    <3>2. Stage = 0 + Part(pc) /\ Stage' = 0 + 10
      BY <2>2, <3>1, Earliers, Parts DEF Stage
    <3>3. QED
      BY <2>1, <3>1, <3>2 DEF OrderInv
  <2>3. CASE call \in {"transfer_tokens", "contract_call"}
    <3>1. call' = "spend_gas" /\ pc' \in {"count", "expiration"}
      BY <1>3, <2>3 DEF EndCall
    <3>2. /\ Earlier(call') >= Earlier(call) + 10 /\ call' \in Calls
          /\ Part(pc') >= 4 /\ pc' \in PcType \ {"interop"}
      BY <2>3, <3>1, Earliers, Parts DEF Calls, PcType
    <3>3. QED
      BY <2>1, <3>2, CallForward
  <2>4. CASE call = "spend_gas"
    <3>1. pc' = "end" /\ call' = call
      BY <1>3, <2>4 DEF EndCall
    <3>2. Part(pc') > Part(pc) /\ pc' \in PcType \ {"interop"}
      BY <2>1, <3>1, Parts DEF PcType
    <3>3. QED
      BY <3>1, <3>2, PartForward
  <2>5. QED
    BY <1>1, <2>2, <2>3, <2>4 DEF Calls
<1>4. QED
  BY <1>2, <1>3

(* So does an instruction that fails, wherever the cursor stays.           *)
LEMMA FailsForward ==
  ASSUME Inv, NEW opcode, NEW n, NEW wrong, Fails(opcode, n, wrong),
         pc \in ScriptPc \ {"count", "interop"}
  PROVE  Stage' > Stage /\ OrderInv'
<1>1. PICK s, o : EndCall(s, o)
  BY DEF Fails
<1>2. QED
  BY <1>1, EndCallForward

(* A later stage is a step forward.                                        *)
LEMMA StageForward ==
  ASSUME Inv, Stage' > Stage
  PROVE  GoesForward
BY StageType, TurnsType DEF GoesForward, Inv

(* One turn less at the same stage is a step forward, too.                 *)
LEMMA TurnsForward ==
  ASSUME Inv, Stage' = Stage, Turns' < Turns
  PROVE  GoesForward
BY StageType, TurnsType DEF GoesForward, Inv

(* The end of a look-ahead: the call is read, or the next one chosen.      *)
LEMMA ScannedForward ==
  ASSUME Inv, OrderInv, Scanning, NEW args \in Int, NEW isInterop, Scanned(args, isInterop)
  PROVE  GoesForward /\ OrderInv'
<1>1. CASE pc = "count"
  <2>1. call' = call /\ pc' \in {"args", "method"}
    BY <1>1 DEF Scanned
  <2>2. Part(pc') > Part(pc) /\ pc' \in PcType \ {"interop"}
    BY <1>1, <2>1, Parts DEF PcType
  <2>3. QED
    BY <2>1, <2>2, PartForward, StageForward
<1>2. CASE pc = "interop"
  <2>1. call = "allow_gas"
    BY <1>2 DEF OrderInv
  <2>2. call' \in {"transfer_tokens", "contract_call"} /\ pc' = "count"
    BY <1>2 DEF Scanned
  <2>3. Earlier(call') >= Earlier(call) + 10 /\ call' \in Calls
    BY <2>1, <2>2, Earliers DEF Calls
  <2>4. /\ Part(pc) <= 10 /\ Part(pc') >= 4 /\ pc' \in PcType \ {"interop"}
    BY <1>2, <2>2, Parts DEF PcType
  <2>5. QED
    BY <2>3, <2>4, CallForward, StageForward
<1>3. QED
  BY <1>1, <1>2 DEF Scanning

(* A turn of a look-ahead consumes a byte at least.                        *)
LEMMA ScanOnForward ==
  ASSUME Inv, OrderInv, Scanning, NEW o \in Nat, scan.off < o, NEW args, ScanOn(o, args)
  PROVE  GoesForward /\ OrderInv'
<1>1. /\ call' = call /\ pc' = pc /\ tx' = tx
      /\ scan' = [off |-> o, args |-> args]
  BY DEF ScanOn
<1>2. Turns = Size - scan.off /\ Turns' = Size - o
  BY <1>1 DEF Turns, Scanning, Size
<1>3. Size \in Nat /\ scan.off \in Nat
  BY SizeType DEF Inv, TypeInv
<1>4. Turns' < Turns
  BY <1>2, <1>3
<1>5. Stage' = Stage /\ OrderInv'
  BY <1>1, TurnForward
<1>6. QED
  BY <1>4, <1>5, TurnsForward

(* Every step of the look-aheads goes forward.                             *)
LEMMA ScanForward ==
  ASSUME Inv, OrderInv,
         ScanLoad \/ ScanPush \/ ScanCtx \/ ScanExtcall \/ ScanOther \/ ScanEnd
  PROVE  GoesForward /\ OrderInv'
<1>1. scan.args \in Nat /\ scan.off \in Nat /\ Size \in Nat
  BY SizeType DEF Inv, TypeInv
<1>0. /\ scan.args \in Int /\ scan.args + 1 \in Int
      /\ scan.args - 1 \in Int /\ scan.args - 2 \in Int
  BY <1>1
<1>2. CASE ScanLoad
  <2>1. Scanning
    BY <1>2 DEF ScanLoad, ScanSees
  <2>2. CASE Scanned(scan.args + 1, FALSE)
    BY <1>0, <2>1, <2>2, ScannedForward, Zenon
  <2>3. CASE /\ scan.off + 4 <= Size
             /\ ScanOn(Behind(scan.off + 4, Op(scan.off + 3)), scan.args + 1)
    <3>1. TypeInv
      BY DEF Inv
    <3>2. scan.off + 3 \in Nat
      BY <1>1
    <3>3. Op(scan.off + 3) \in Nat
      BY <3>1, <3>2, OpType
    <3>4. /\ Behind(scan.off + 4, Op(scan.off + 3)) \in Nat
          /\ scan.off < Behind(scan.off + 4, Op(scan.off + 3))
      BY <1>1, <3>3 DEF Behind
    <3>5. QED
      BY <2>1, <2>3, <3>4, ScanOnForward
  <2>4. QED
    BY <1>2, <2>2, <2>3 DEF ScanLoad
<1>3. CASE ScanPush
  <2>1. Scanning
    BY <1>3 DEF ScanPush, ScanSees
  <2>2. CASE Scanned(scan.args, FALSE)
    BY <1>0, <2>1, <2>2, ScannedForward, Zenon
  <2>3. CASE ScanOn(scan.off + 2, scan.args)
    <3>1. scan.off + 2 \in Nat /\ scan.off < scan.off + 2
      BY <1>1
    <3>2. QED
      BY <2>1, <2>3, <3>1, ScanOnForward
  <2>4. QED
    BY <1>3, <2>2, <2>3 DEF ScanPush
<1>4. CASE ScanCtx
  BY <1>0, <1>4, ScannedForward, Zenon DEF ScanCtx, ScanSees
<1>5. CASE ScanExtcall
  BY <1>0, <1>5, ScannedForward, Zenon DEF ScanExtcall, ScanSees
<1>6. CASE ScanOther
  <2>1. Scanning /\ ScanOn(scan.off + 1, scan.args)
    BY <1>6 DEF ScanOther, ScanSees
  <2>2. scan.off + 1 \in Nat /\ scan.off < scan.off + 1
    BY <1>1
  <2>3. QED
    BY <2>1, <2>2, ScanOnForward
<1>7. CASE ScanEnd
  BY <1>0, <1>7, ScannedForward, Zenon DEF ScanEnd
<1>8. QED
  BY <1>2, <1>3, <1>4, <1>5, <1>6, <1>7

(* An instruction of the script.                                           *)
LEMMA LoadForward ==
  ASSUME Inv, OrderInv, ReadLoad
  PROVE  GoesForward /\ OrderInv'
<1>1. pc \in {"args", "method", "name"} /\ pushing = FALSE
  BY DEF ReadLoad, Inv, TypeInv
<1>2. CASE Fails(LOAD, 3, "SCRIPT_PARSING_ERROR_OPCODE_LOAD13")
  <2>1. pc \in ScriptPc \ {"count", "interop"}
    BY <1>1 DEF ScriptPc
  <2>2. QED
    BY <1>2, <2>1, FailsForward, StageForward
<1>3. CASE pc = "args" /\ Overrun
  <2>1. call' = call /\ pc' = "overrun"
    BY <1>3 DEF Overrun
  <2>2. Part(pc') > Part(pc) /\ pc' \in PcType \ {"interop"}
    BY <1>3, <2>1, Parts DEF PcType
  <2>3. QED
    BY <2>1, <2>2, PartForward, StageForward
<1>4. CASE /\ pc = "args" /\ pushing' = TRUE /\ UNCHANGED <<pc, call, ix>>
           /\ \E s : calls' = [calls EXCEPT ![call].args[ix] = s]
  <2>1. calls'[call].args_len = calls[call].args_len
    BY <1>4 DEF Inv, TypeInv, CallType
  <2>2. calls[call].args_len \in Int /\ ix \in Int
    <3>1. calls[call] \in CallType /\ ix \in -1 .. 255
      BY DEF Inv, TypeInv
    <3>2. calls[call].args_len \in 0 .. 255
      BY <3>1 DEF CallType
    <3>3. QED
      BY <3>1, <3>2
  <2>3. /\ Turns = 2 * (calls[call].args_len - ix) - 0
        /\ Turns' = 2 * (calls[call].args_len - ix) - 1
    BY <1>1, <1>4, <2>1 DEF Turns
  <2>4. \A m, i \in Int : 2 * (m - i) - 1 < 2 * (m - i) - 0
    OBVIOUS
  <2>5. Turns' < Turns
    BY <2>2, <2>3, <2>4
  <2>6. Stage' = Stage /\ OrderInv'
    BY <1>4, TurnForward
  <2>7. QED
    BY <2>5, <2>6, TurnsForward
<1>5. CASE pc = "method" /\ pc' = "method" /\ pushing' = TRUE /\ call' = call
  <2>1. Turns = 1 /\ Turns' = 0
    BY <1>1, <1>5 DEF Turns
  <2>2. Stage' = Stage /\ OrderInv'
    BY <1>5, TurnForward
  <2>3. QED
    BY <2>1, <2>2, TurnsForward
<1>6. CASE /\ call' = call
           /\ \/ pc = "method" /\ pc' = "extcall"
              \/ pc = "name" /\ pc' = "ctx"
  <2>1. Part(pc') > Part(pc) /\ pc' \in PcType \ {"interop"}
    BY <1>6, Parts DEF PcType
  <2>2. QED
    BY <1>6, <2>1, PartForward, StageForward
<1>7. QED
  <2>1. CASE pc = "args"
    <3>1. \/ Fails(LOAD, 3, "SCRIPT_PARSING_ERROR_OPCODE_LOAD13")
          \/ Overrun
          \/ /\ pushing' = TRUE /\ UNCHANGED <<pc, call, ix>>
             /\ \E s : calls' = [calls EXCEPT ![call].args[ix] = s]
      BY <2>1, Zenon DEF ReadLoad
    <3>2. QED
      BY <2>1, <3>1, <1>2, <1>3, <1>4
  <2>2. CASE pc = "method" /\ ~Fails(LOAD, 3, "SCRIPT_PARSING_ERROR_OPCODE_LOAD13")
    <3>1. /\ pushing' = (call # "transfer_tokens") /\ call' = call
          /\ pc' = IF pushing' THEN "method" ELSE "extcall"
      BY <2>2 DEF ReadLoad
    <3>2. QED
      BY <2>2, <3>1, <1>5, <1>6
  <2>3. CASE pc = "name" /\ ~Fails(LOAD, 3, "SCRIPT_PARSING_ERROR_OPCODE_LOAD13")
    <3>1. call' = call /\ pc' = "ctx"
      BY <2>3 DEF ReadLoad
    <3>2. QED
      BY <2>3, <3>1, <1>6
  <2>4. QED
    BY <1>1, <1>2, <2>1, <2>2, <2>3

(* A push ends an argument, or the method.                                 *)
LEMMA PushForward ==
  ASSUME Inv, OrderInv, ReadPush
  PROVE  GoesForward /\ OrderInv'
<1>1. pc \in {"args", "method"} /\ pushing = TRUE
  BY DEF ReadPush, Inv, LoopInv, TypeInv
<1>2. CASE Fails(PUSH, 1, "SCRIPT_PARSING_ERROR_OPCODE_PUSH2")
  <2>1. pc \in ScriptPc \ {"count", "interop"}
    BY <1>1 DEF ScriptPc
  <2>2. QED
    BY <1>2, <2>1, FailsForward, StageForward
<1>3. CASE /\ pc = "args" /\ pc' = "args" /\ ix' = ix + 1 /\ pushing' = FALSE
           /\ UNCHANGED <<call, calls>>
  <2>1. calls[call].args_len \in Int /\ ix \in Int
    <3>1. calls[call] \in CallType /\ ix \in -1 .. 255
      BY DEF Inv, TypeInv
    <3>2. calls[call].args_len \in 0 .. 255
      BY <3>1 DEF CallType
    <3>3. QED
      BY <3>1, <3>2
  <2>2. /\ Turns = 2 * (calls[call].args_len - ix) - 1
        /\ Turns' = 2 * (calls[call].args_len - (ix + 1)) - 0
    BY <1>1, <1>3 DEF Turns
  <2>3. \A m, i \in Int : 2 * (m - (i + 1)) - 0 < 2 * (m - i) - 1
    OBVIOUS
  <2>4. Turns' < Turns
    BY <2>1, <2>2, <2>3
  <2>5. Stage' = Stage /\ OrderInv'
    BY <1>3, TurnForward
  <2>6. QED
    BY <2>4, <2>5, TurnsForward
<1>4. CASE /\ call' = call
           /\ \/ pc = "args" /\ pc' = "method"
              \/ pc = "method" /\ pc' = "name"
  <2>1. Part(pc') > Part(pc) /\ pc' \in PcType \ {"interop"}
    BY <1>4, Parts DEF PcType
  <2>2. QED
    BY <1>4, <2>1, PartForward, StageForward
<1>5. QED
  <2>1. \/ Fails(PUSH, 1, "SCRIPT_PARSING_ERROR_OPCODE_PUSH2")
        \/ /\ pushing' = FALSE /\ UNCHANGED <<call, calls>>
           /\ \/ /\ pc = "args" /\ ix' = ix + 1
                 /\ pc' = IF ix + 1 < calls[call].args_len THEN "args" ELSE "method"
              \/ pc = "method" /\ pc' = "name"
    BY DEF ReadPush
  <2>2. QED
    BY <2>1, <1>2, <1>3, <1>4

(* The context leads to its switch, or ends the call.                      *)
LEMMA CtxForward ==
  ASSUME Inv, OrderInv, ReadCtx
  PROVE  GoesForward /\ OrderInv'
<1>1. pc = "ctx"
  BY DEF ReadCtx
<1>2. CASE Fails(CTX, 2, "SCRIPT_PARSING_ERROR_OPCODE_CTX45")
  <2>1. pc \in ScriptPc \ {"count", "interop"}
    BY <1>1 DEF ScriptPc
  <2>2. QED
    BY <1>2, <2>1, FailsForward, StageForward
<1>3. CASE call' = call /\ pc' = "switch"
  <2>1. Part(pc') > Part(pc) /\ pc' \in PcType \ {"interop"}
    BY <1>1, <1>3, Parts DEF PcType
  <2>2. QED
    BY <1>3, <2>1, PartForward, StageForward
<1>4. QED
  BY <1>2, <1>3 DEF ReadCtx

(* The last instruction of a call ends it, there or not.                   *)
LEMMA LastForward ==
  ASSUME Inv, OrderInv, NEW opcode, NEW n, NEW wrong, ReadLast(opcode, n, wrong),
         pc \in ScriptPc \ {"count", "interop"}
  PROVE  GoesForward /\ OrderInv'
<1>1. CASE Fails(opcode, n, wrong)
  BY <1>1, FailsForward, StageForward
<1>2. CASE EndCall("PARSING_OK", soff + 1 + n)
  BY <1>2, EndCallForward, StageForward
<1>3. QED
  BY <1>1, <1>2 DEF ReadLast

(* The fields of the transaction, and those of the review.                 *)
LEMMA FieldForward ==
  ASSUME Inv, OrderInv, NEW name \in HeadPc, NEW max,
         NEW zero, NEW overflow, NEW parsing, NEW next \in PcType \ {"interop"},
         Part(next) > Part(name), Field(name, max, zero, overflow, parsing, next)
  PROVE  GoesForward /\ OrderInv'
<1>1. pc = name /\ call' = call /\ pc' \in {"done", next}
  BY DEF Field, Return, scriptVars
<1>2. Part(pc') > Part(pc) /\ pc' \in PcType \ {"interop"}
  BY <1>1, Parts DEF PcType, HeadPc
<1>3. QED
  BY <1>1, <1>2, PartForward, StageForward

(* An argument that is listed is not listed again.                         *)
LEMMA JoinForward ==
  ASSUME Inv, OrderInv, JoinArg
  PROVE  GoesForward /\ OrderInv'
<1>1. pc = "join" /\ ix >= 0 /\ ix \in -1 .. 255
  BY DEF JoinArg, Inv, TypeInv
<1>2. CASE pc' = pc /\ call' = call /\ ix' = ix - 1
  <2>1. Turns = ix + 1 /\ Turns' = (ix - 1) + 1
    BY <1>1, <1>2 DEF Turns
  <2>2. Turns' < Turns
    BY <1>1, <2>1
  <2>3. Stage' = Stage /\ OrderInv'
    BY <1>2, TurnForward
  <2>4. QED
    BY <2>2, <2>3, TurnsForward
<1>3. CASE call' = call /\ pc' \in {"done", "overrun"}
  <2>1. Part(pc') > Part(pc) /\ pc' \in PcType \ {"interop"}
    BY <1>1, <1>3, Parts DEF PcType
  <2>2. QED
    BY <1>3, <2>1, PartForward, StageForward
<1>4. call' = call
  BY DEF JoinArg, Overrun
<1>5. \/ pc' \in {"done", "overrun"}
      \/ pc' = pc /\ ix' = ix - 1
  BY DEF JoinArg, Overrun, Return
<1>6. QED
  BY <1>2, <1>3, <1>4, <1>5

(* The fields are read, and listed, one behind the other.                  *)
LEMMA TransactionForward ==
  ASSUME Inv, OrderInv, TransactionStep
  PROVE  GoesForward /\ OrderInv'
<1>1. /\ HeadPc = {"nexus", "chain", "script", "payload"}
      /\ {"chain", "script", "count", "fields"} \subseteq PcType \ {"interop"}
  BY DEF HeadPc, PcType
<1>2. CASE ReadNexus
  BY <1>1, <1>2, Parts, FieldForward DEF ReadNexus
<1>3. CASE ReadChain
  BY <1>1, <1>3, Parts, FieldForward DEF ReadChain
<1>4. CASE ReadScript
  BY <1>1, <1>4, Parts, FieldForward DEF ReadScript
<1>5. CASE ReadPayload
  BY <1>1, <1>5, Parts, FieldForward DEF ReadPayload
<1>6. CASE JoinArg
  BY <1>6, JoinForward
<1>7. CASE CheckLength \/ ReadExpiration \/ SetFields \/ JoinNothing
  <2>1. /\ call' = call
        /\ \/ pc = "start" /\ pc' \in {"done", "nexus"}
           \/ pc = "expiration" /\ pc' = "payload"
           \/ pc = "fields" /\ pc' \in {"done", "join"}
           \/ pc = "join" /\ pc' = "done"
    BY <1>7 DEF CheckLength, ReadExpiration, SetFields, JoinNothing, Return, scriptVars
  <2>2. Part(pc') > Part(pc) /\ pc' \in PcType \ {"interop"}
    BY <2>1, Parts DEF PcType
  <2>3. QED
    BY <2>1, <2>2, PartForward, StageForward
<1>8. QED
  BY <1>2, <1>3, <1>4, <1>5, <1>6, <1>7 DEF TransactionStep

(* Every step goes forward.                                                *)
LEMMA StepForward ==
  ASSUME Inv, OrderInv, [Next]_vars
  PROVE  /\ UNCHANGED vars \/ GoesForward
         /\ OrderInv'
<1>1. CASE ReadLoad
  BY <1>1, LoadForward
<1>2. CASE ReadPush
  BY <1>2, PushForward
<1>3. CASE ReadCtx
  BY <1>3, CtxForward
<1>4. CASE ReadSwitch
  BY <1>4, LastForward DEF ReadSwitch, ScriptPc
<1>5. CASE ReadExtcall
  BY <1>5, LastForward DEF ReadExtcall, ScriptPc
<1>6. CASE ReadEnd
  BY <1>6, LastForward DEF ReadEnd, ScriptPc
<1>7. CASE ScanLoad \/ ScanPush \/ ScanCtx \/ ScanExtcall \/ ScanOther \/ ScanEnd
  BY <1>7, ScanForward
<1>8. CASE TransactionStep
  BY <1>8, TransactionForward
<1>9. CASE UNCHANGED vars
  BY <1>9 DEF vars, scriptVars, OrderInv
<1>10. QED
  BY <1>1, <1>2, <1>3, <1>4, <1>5, <1>6, <1>7, <1>8, <1>9 DEF Next, ScriptStep, Returned

(* On no transaction, however damaged, does the parser come back to a      *)
(* place where it was: every step leads to a later call or part, or leaves *)
(* one turn less of the loop it is in.                                     *)
THEOREM NoStepLeadsBack == Spec => AlwaysForward
<1>1. Init => Inv /\ OrderInv
  BY InitInv DEF Init, OrderInv
<1>2. Inv /\ OrderInv /\ [Next]_vars => Inv' /\ OrderInv' /\ [GoesForward]_vars
  BY NextInv, StepForward
<1>3. QED
  BY <1>1, <1>2, PTL DEF Spec, AlwaysForward

-----------------------------------------------------------------------------
(* What is displayed is bounded.                                           *)

(* The instructions of the script leave the header alone, and do not end   *)
(* the parser.                                                             *)
LEMMA ScriptStepFrame ==
  ASSUME Inv, ScriptStep
  PROVE  /\ pc \in ScriptPc /\ pc' \in ScriptPc \cup {"expiration", "overrun"}
         /\ UNCHANGED <<raw, status, off>>
         /\ \A f \in {"nexus", "chain", "script"} : tx'[f] = tx[f]
<1>1. /\ pushing => pc \in {"args", "method"}
      /\ pc \in PcType /\ call \in Calls /\ tx \in TxType
  BY DEF Inv, TypeInv, LoopInv
<1>2. \A s, o : pc \in ScriptPc /\ EndCall(s, o) => pc' \in ScriptPc \cup {"expiration"}
  BY <1>1 DEF EndCall, ScriptPc, Calls
<1>3. \A opcode, n, wrong : pc \in ScriptPc /\ Fails(opcode, n, wrong) =>
        pc' \in ScriptPc \cup {"expiration"}
  BY <1>2 DEF Fails
<1>4. CASE ReadLoad
  <2>1. pc \in {"args", "method", "name"} /\ UNCHANGED <<raw, status, off, tx, joined>>
    BY <1>4 DEF ReadLoad
  <2>2. pc' \in ScriptPc \cup {"expiration", "overrun"}
    <3>1. CASE Fails(LOAD, 3, "SCRIPT_PARSING_ERROR_OPCODE_LOAD13")
      BY <1>3, <2>1, <3>1 DEF ScriptPc
    <3>2. CASE ~Fails(LOAD, 3, "SCRIPT_PARSING_ERROR_OPCODE_LOAD13")
      BY <1>4, <2>1, <3>2 DEF ReadLoad, Overrun, ScriptPc
    <3>3. QED
      BY <3>1, <3>2
  <2>3. QED
    BY <2>1, <2>2 DEF ScriptPc
<1>5. CASE ReadPush
  <2>1. pc \in {"args", "method"} /\ UNCHANGED <<raw, status, off, tx, joined>>
    BY <1>1, <1>5 DEF ReadPush
  <2>2. pc' \in ScriptPc \cup {"expiration", "overrun"}
    <3>1. CASE Fails(PUSH, 1, "SCRIPT_PARSING_ERROR_OPCODE_PUSH2")
      BY <1>3, <2>1, <3>1 DEF ScriptPc
    <3>2. CASE ~Fails(PUSH, 1, "SCRIPT_PARSING_ERROR_OPCODE_PUSH2")
      BY <1>5, <2>1, <3>2 DEF ReadPush, ScriptPc
    <3>3. QED
      BY <3>1, <3>2
  <2>3. QED
    BY <2>1, <2>2 DEF ScriptPc
<1>6. CASE ReadCtx
  <2>1. pc = "ctx" /\ UNCHANGED <<raw, status, off, tx, joined>>
    BY <1>6 DEF ReadCtx
  <2>2. pc' \in ScriptPc \cup {"expiration", "overrun"}
    <3>1. CASE Fails(CTX, 2, "SCRIPT_PARSING_ERROR_OPCODE_CTX45")
      BY <1>3, <2>1, <3>1 DEF ScriptPc
    <3>2. CASE ~Fails(CTX, 2, "SCRIPT_PARSING_ERROR_OPCODE_CTX45")
      BY <1>6, <2>1, <3>2 DEF ReadCtx, ScriptPc
    <3>3. QED
      BY <3>1, <3>2
  <2>3. QED
    BY <2>1, <2>2 DEF ScriptPc
<1>7. CASE ReadSwitch \/ ReadExtcall \/ ReadEnd
  <2>1. pc \in ScriptPc
    BY <1>7 DEF ReadSwitch, ReadExtcall, ReadEnd, ScriptPc
  <2>2. PICK opcode, n, wrong : ReadLast(opcode, n, wrong)
    BY <1>7 DEF ReadSwitch, ReadExtcall, ReadEnd
  <2>3. /\ UNCHANGED <<raw, status, off, tx, joined>>
        /\ Fails(opcode, n, wrong) \/ EndCall("PARSING_OK", soff + 1 + n)
    BY <2>2 DEF ReadLast
  <2>4. pc' \in ScriptPc \cup {"expiration"}
    BY <1>2, <1>3, <2>1, <2>3
  <2>5. QED
    BY <2>1, <2>3, <2>4
<1>8. CASE ScanLoad \/ ScanPush \/ ScanCtx \/ ScanExtcall \/ ScanOther \/ ScanEnd
  <2>1. pc \in {"count", "interop"}
    BY <1>8 DEF ScanLoad, ScanPush, ScanCtx, ScanExtcall, ScanOther, ScanEnd, ScanSees, Scanning
  <2>2. \/ \E args, isInterop : Scanned(args, isInterop)
        \/ \E o, args : ScanOn(o, args)
    BY <1>8 DEF ScanLoad, ScanPush, ScanCtx, ScanExtcall, ScanOther, ScanEnd
  <2>3. CASE \E o, args : ScanOn(o, args)
    BY <2>1, <2>3 DEF ScanOn, ScriptPc
  <2>4. CASE \E args, isInterop : Scanned(args, isInterop)
    <3>1. PICK args, isInterop : Scanned(args, isInterop)
      BY <2>4
    <3>2. UNCHANGED <<raw, status, off>>
      BY <3>1 DEF Scanned
    <3>3. \/ pc' \in {"method", "args"} /\ tx' = tx
          \/ /\ pc' = "count"
             /\ tx' = [tx EXCEPT !.type = IF isInterop THEN "TRANSFER" ELSE "CUSTOM"]
      BY <3>1 DEF Scanned
    <3>4. \A f \in {"nexus", "chain", "script"} : tx'[f] = tx[f]
      BY <1>1, <3>3 DEF TxType
    <3>5. QED
      BY <2>1, <3>2, <3>3, <3>4 DEF ScriptPc
  <2>5. QED
    BY <2>2, <2>3, <2>4
<1>9. QED
  BY <1>4, <1>5, <1>6, <1>7, <1>8 DEF ScriptStep

(* A header within its limits, and slices that begin in the transaction.   *)
Shown == {"from", "to", "token", "value", "gas_limit", "gas_price", "method", "name"}

Short(s) == s.at <= Len(raw) /\ s.len <= 255

ShortCall(c) ==
  /\ \A i \in 0 .. MAX_ARGS_LEN - 1 : Short(c.args[i])
  /\ Short(c.method) /\ Short(c.name)

(* The inductive invariant of the bounds.  A field under review is a slice *)
(* that some load of the script described, so the calls are bounded, too.  *)
LimitInv ==
  /\ status = "PARSING_OK" => pc = "done"
  /\ pc \in {"chain", "script", "payload", "fields", "join", "expiration"} \cup ScriptPc
       \/ status = "PARSING_OK" => tx.nexus.len \in 1 .. NEXUS_LEN
  /\ pc \in {"script", "payload", "fields", "join", "expiration"} \cup ScriptPc
       \/ status = "PARSING_OK" => tx.chain.len \in 1 .. CHAIN_LEN
  /\ pc \in {"payload", "fields", "join", "expiration"} \cup ScriptPc
       \/ status = "PARSING_OK" => tx.script.len \in 1 .. SCRIPT_LEN
  /\ pc \in {"fields", "join"} \/ status = "PARSING_OK" =>
       tx.payload.len \in 1 .. PAYLOAD_LEN

ShortInv ==
  /\ \A c \in Calls : ShortCall(calls[c])
  /\ \A f \in Shown : Short(tx[f])

(* A field of the header is refused, or is within its limit.               *)
LEMMA FieldLimit ==
  ASSUME Inv, NEW name \in HeadPc, NEW max,
         NEW zero, NEW overflow, NEW parsing, NEW next,
         Field(name, max, zero, overflow, parsing, next)
  PROVE  /\ pc = name /\ UNCHANGED <<raw, calls>>
         /\ \A f \in DOMAIN tx \ {name} : tx'[f] = tx[f]
         /\ \/ pc' = "done" /\ status' \in {zero, overflow, parsing}
            \/ pc' = next /\ UNCHANGED status /\ tx'[name].len \in 1 .. max
<1>1. tx \in TxType
  BY DEF Inv, TypeInv
<1>2. pc = name /\ UNCHANGED <<raw, calls>>
  BY DEF Field, scriptVars
<1>3. CASE UNCHANGED tx /\ pc' = "done" /\ status' \in {zero, overflow, parsing}
  BY <1>2, <1>3
<1>4. CASE /\ pc' = next /\ UNCHANGED status
           /\ \E f : f.len \in 1 .. max /\ tx' = [tx EXCEPT ![name] = f]
  <2>1. PICK f : f.len \in 1 .. max /\ tx' = [tx EXCEPT ![name] = f]
    BY <1>4
  <2>2. tx'[name] = f /\ \A g \in DOMAIN tx \ {name} : tx'[g] = tx[g]
    BY <1>1, <2>1 DEF HeadPc, TxType
  <2>3. QED
    BY <1>2, <1>4, <2>1, <2>2
<1>5. \/ UNCHANGED tx /\ pc' = "done" /\ status' \in {zero, overflow, parsing}
      \/ /\ pc' = next /\ UNCHANGED status
         /\ \E f : f.len \in 1 .. max /\ tx' = [tx EXCEPT ![name] = f]
  <2> DEFINE length == Varint(off)
             f == [at |-> length.next, len |-> length.value]
  <2>1. f.len = length.value
    OBVIOUS
  <2>2. \/ UNCHANGED tx /\ pc' = "done" /\ status' \in {zero, overflow, parsing}
        \/ /\ pc' = next /\ UNCHANGED status
           /\ length.value \in 1 .. max /\ tx' = [tx EXCEPT ![name] = f]
    BY DEF Field, Return
  <2> HIDE DEF f, length
  <2>3. QED
    BY <2>1, <2>2
<1>6. QED
  BY <1>3, <1>4, <1>5

(* Every step keeps the limits of the header.                              *)
LEMMA LimitKept ==
  ASSUME Inv, LimitInv, [Next]_vars
  PROVE  LimitInv'
<1>1. tx \in TxType /\ HeadPc \subseteq DOMAIN tx
  BY DEF Inv, TypeInv, TxType, HeadPc
<1>2. ASSUME pc' = "done", status' # "PARSING_OK"
      PROVE  LimitInv'
  BY <1>2 DEF LimitInv, ScriptPc
<1>3. CASE ScriptStep
  <2>1. /\ pc \in ScriptPc /\ pc' \in ScriptPc \cup {"expiration", "overrun"}
        /\ UNCHANGED status
        /\ tx'.nexus = tx.nexus /\ tx'.chain = tx.chain /\ tx'.script = tx.script
    BY <1>3, ScriptStepFrame
  <2>2. QED
    BY <2>1 DEF LimitInv, ScriptPc
<1>4. CASE ReadNexus
  <2>1. /\ pc = "nexus"
        /\ \/ pc' = "done" /\ status' # "PARSING_OK"
           \/ pc' = "chain" /\ UNCHANGED status /\ tx'.nexus.len \in 1 .. NEXUS_LEN
    BY <1>4, FieldLimit DEF ReadNexus, HeadPc
  <2>2. QED
    BY <1>2, <2>1 DEF LimitInv, ScriptPc
<1>5. CASE ReadChain
  <2>1. /\ pc = "chain" /\ tx'.nexus = tx.nexus
        /\ \/ pc' = "done" /\ status' # "PARSING_OK"
           \/ pc' = "script" /\ UNCHANGED status /\ tx'.chain.len \in 1 .. CHAIN_LEN
    BY <1>1, <1>5, FieldLimit DEF ReadChain, HeadPc
  <2>2. QED
    BY <1>2, <2>1 DEF LimitInv, ScriptPc
<1>6. CASE ReadScript
  <2>1. /\ pc = "script" /\ tx'.nexus = tx.nexus /\ tx'.chain = tx.chain
        /\ \/ pc' = "done" /\ status' # "PARSING_OK"
           \/ pc' = "count" /\ UNCHANGED status /\ tx'.script.len \in 1 .. SCRIPT_LEN
    BY <1>1, <1>6, FieldLimit DEF ReadScript, HeadPc
  <2>2. QED
    BY <1>2, <2>1 DEF LimitInv, ScriptPc
<1>7. CASE ReadPayload
  <2>1. /\ pc = "payload" /\ tx'.nexus = tx.nexus /\ tx'.chain = tx.chain
        /\ tx'.script = tx.script
        /\ \/ pc' = "done" /\ status' # "PARSING_OK"
           \/ pc' = "fields" /\ UNCHANGED status /\ tx'.payload.len \in 1 .. PAYLOAD_LEN
    BY <1>1, <1>7, FieldLimit DEF ReadPayload, HeadPc
  <2>2. QED
    BY <1>2, <2>1 DEF LimitInv, ScriptPc
<1>8. CASE CheckLength
  <2>1. /\ pc = "start"
        /\ \/ pc' = "done" /\ status' # "PARSING_OK"
           \/ pc' = "nexus" /\ UNCHANGED status
    BY <1>8 DEF CheckLength, Return
  <2>2. QED
    BY <1>2, <2>1 DEF LimitInv, ScriptPc
<1>9. CASE ReadExpiration
  <2>1. pc = "expiration" /\ pc' = "payload" /\ UNCHANGED status
    BY <1>9 DEF ReadExpiration
  <2>2. \A f \in {"nexus", "chain", "script"} : tx'[f] = tx[f]
    BY <1>1, <1>9 DEF ReadExpiration, TxType
  <2>3. QED
    BY <2>1, <2>2 DEF LimitInv, ScriptPc
<1>10. CASE SetFields \/ JoinArg \/ JoinNothing
  <2>1. /\ pc \in {"fields", "join"}
        /\ \/ pc' = "done"
           \/ pc' \in {"join", "overrun"} /\ UNCHANGED status
    <3>1. CASE SetFields
      BY <3>1 DEF SetFields, Return
    <3>2. CASE JoinArg
      BY <3>2 DEF JoinArg, Return, Overrun
    <3>3. CASE JoinNothing
      BY <3>3 DEF JoinNothing, Return, scriptVars
    <3>4. QED
      BY <1>10, <3>1, <3>2, <3>3
  <2>2. \A f \in {"nexus", "chain", "script", "payload"} : tx'[f] = tx[f]
    <3>1. CASE SetFields
      BY <1>1, <3>1 DEF SetFields, TxType
    <3>2. CASE JoinArg \/ JoinNothing
      BY <3>2 DEF JoinArg, JoinNothing
    <3>3. QED
      BY <1>10, <3>1, <3>2
  <2>3. /\ tx'.nexus = tx.nexus /\ tx'.chain = tx.chain /\ tx'.script = tx.script
        /\ tx'.payload = tx.payload
    BY <2>2
  <2>4. QED
    BY <2>1, <2>3 DEF LimitInv, ScriptPc
<1>11. CASE UNCHANGED vars
  BY <1>11 DEF LimitInv, vars
<1>12. QED
  BY <1>3, <1>4, <1>5, <1>6, <1>7, <1>8, <1>9, <1>10, <1>11
     DEF Next, TransactionStep, Returned

(* A load describes a slice that begins in the script.                     *)
LEMMA LoadedShort ==
  ASSUME Inv, Reads(LOAD, 3)
  PROVE  Short([at |-> tx.script.at + soff + 4, len |-> Op(soff + 3)])
<1>1. TypeInv
  BY DEF Inv
<1>2. soff + 3 \in Nat
  BY DEF Inv, TypeInv
<1>3. Op(soff + 3) <= 255
  BY <1>1, <1>2, OpType
<1>4. /\ soff + 4 <= Size /\ soff \in Nat /\ Size \in Nat
      /\ tx.script.at \in Nat /\ tx.script.at + Size <= Len(raw) /\ Len(raw) \in Nat
  BY SizeType, LenProperties DEF Reads, Inv, TypeInv, TxType, Slice, CursorInv, OffsetsInside, Size
<1> DEFINE at == tx.script.at + soff + 4
           len == Op(soff + 3)
<1>5. at <= Len(raw) /\ len <= 255
  BY <1>3, <1>4
<1> HIDE DEF at, len
<1>6. QED
  BY <1>5 DEF Short, at, len

(* The slices of the calls stay short when one of them is replaced.        *)
LEMMA CallKeptShort ==
  ASSUME NEW c \in CallType, ShortCall(c), NEW s, Short(s)
  PROVE  /\ \A i \in 0 .. MAX_ARGS_LEN - 1 : ShortCall([c EXCEPT !.args[i] = s])
         /\ ShortCall([c EXCEPT !.method = s]) /\ ShortCall([c EXCEPT !.name = s])
         /\ \A n : ShortCall([c EXCEPT !.args_len = n])
BY DEF CallType, ShortCall

(* An instruction of the script keeps the slices of the calls short.       *)
LEMMA CallsKeptShort ==
  ASSUME Inv, ShortInv, ScriptStep
  PROVE  \A c \in Calls : ShortCall(calls'[c])
<1>1. /\ calls \in [Calls -> CallType] /\ call \in Calls /\ calls[call] \in CallType
      /\ \A c \in Calls : ShortCall(calls[c])
  BY DEF Inv, TypeInv, ShortInv
<1>2. ASSUME NEW d, ShortCall(d), calls' = [calls EXCEPT ![call] = d]
      PROVE  \A c \in Calls : ShortCall(calls'[c])
  BY <1>1, <1>2
<1>3. CASE UNCHANGED calls
  BY <1>1, <1>3
<1>4. CASE ReadLoad /\ ~UNCHANGED calls
  <2> DEFINE s == [at |-> tx.script.at + soff + 4, len |-> Op(soff + 3)]
  <2>1. /\ Reads(LOAD, 3)
        /\ \/ pc = "args" /\ ix < MAX_ARGS_LEN /\ calls' = [calls EXCEPT ![call].args[ix] = s]
           \/ pc \in {"method", "name"} /\ calls' = [calls EXCEPT ![call][pc] = s]
    BY <1>4 DEF ReadLoad, Fails, Overrun
  <2>2. Short(s)
    BY <2>1, LoadedShort
  <2> HIDE DEF s
  <2>3. CASE pc = "args" /\ ix < MAX_ARGS_LEN /\ calls' = [calls EXCEPT ![call].args[ix] = s]
    <3>1. ix \in 0 .. 254
      BY <2>3 DEF Inv, LoopInv
    <3>2. ix \in 0 .. MAX_ARGS_LEN - 1
      BY <2>3, <3>1 DEF MAX_ARGS_LEN
    <3>3. ShortCall([calls[call] EXCEPT !.args[ix] = s])
      BY <1>1, <2>2, <3>2, CallKeptShort
    <3>4. QED
      BY <1>2, <2>3, <3>3
  <2>4. CASE pc = "method" /\ calls' = [calls EXCEPT ![call].method = s]
    BY <1>1, <1>2, <2>2, <2>4, CallKeptShort
  <2>5. CASE pc = "name" /\ calls' = [calls EXCEPT ![call].name = s]
    BY <1>1, <1>2, <2>2, <2>5, CallKeptShort
  <2>6. QED
    BY <2>1, <2>3, <2>4, <2>5
<1>5. CASE \E n : calls' = [calls EXCEPT ![call].args_len = n]
  <2>1. PICK n : calls' = [calls EXCEPT ![call].args_len = n]
    BY <1>5
  <2>2. Short(Nothing)
    BY LenProperties DEF Short, Nothing, Inv, TypeInv
  <2>3. ShortCall([calls[call] EXCEPT !.args_len = n])
    BY <1>1, <2>2, CallKeptShort
  <2>4. QED
    BY <1>2, <2>1, <2>3
<1>6. CASE ReadPush \/ ReadCtx \/ ReadSwitch \/ ReadExtcall \/ ReadEnd
  BY <1>3, <1>6 DEF ReadPush, ReadCtx, ReadSwitch, ReadExtcall, ReadEnd, ReadLast, Fails
<1>7. CASE ScanLoad \/ ScanPush \/ ScanCtx \/ ScanExtcall \/ ScanOther \/ ScanEnd
  <2>1. \/ \E args, isInterop : Scanned(args, isInterop)
        \/ \E o, args : ScanOn(o, args)
    BY <1>7 DEF ScanLoad, ScanPush, ScanCtx, ScanExtcall, ScanOther, ScanEnd
  <2>2. QED
    BY <1>3, <1>5, <2>1 DEF Scanned, ScanOn
<1>8. QED
  BY <1>3, <1>4, <1>6, <1>7 DEF ScriptStep

(* The fields under review are copies of slices of the calls.              *)
LEMMA FieldsKeptShort ==
  ASSUME Inv, ShortInv, SetFields
  PROVE  \A f \in Shown : Short(tx'[f])
<1>1. tx \in TxType /\ \A f \in Shown : Short(tx[f])
  BY DEF Inv, TypeInv, ShortInv
<1>2. /\ \A c \in Calls, i \in 0 .. 3 : Short(calls[c].args[i])
      /\ \A c \in Calls : Short(calls[c].name) /\ Short(calls[c].method)
  BY DEF ShortInv, ShortCall, MAX_ARGS_LEN
<1> DEFINE gas == calls["allow_gas"].args
           transfer == calls["transfer_tokens"].args
           custom == calls["contract_call"]
<1>3. /\ Short(gas[0]) /\ Short(gas[1]) /\ Short(gas[3])
      /\ Short(transfer[0]) /\ Short(transfer[1]) /\ Short(transfer[2]) /\ Short(transfer[3])
      /\ Short(custom.name) /\ Short(custom.method)
  BY <1>2 DEF Calls
<1>4. \/ tx' = [[tx EXCEPT !.gas_price = gas[1], !.gas_limit = gas[0]] EXCEPT
                  !.from = transfer[3], !.to = transfer[2],
                  !.token = transfer[1], !.value = transfer[0]]
      \/ tx' = [[tx EXCEPT !.gas_price = gas[1], !.gas_limit = gas[0]] EXCEPT
                  !.from = gas[3], !.name = custom.name, !.method = custom.method]
  BY DEF SetFields
<1> DEFINE common == [tx EXCEPT !.gas_price = gas[1], !.gas_limit = gas[0]]
<1> HIDE DEF gas, transfer, custom
<1>5. common = [f \in DOMAIN tx |-> common[f]]
  BY <1>1 DEF TxType
<1>6. \A f \in Shown : Short(common[f])
  <2>1. \A f \in Shown : common[f] \in {tx[f], gas[0], gas[1]}
    BY <1>1 DEF TxType, Shown
  <2> HIDE DEF common
  <2>2. QED
    BY <1>1, <1>3, <2>1
<1> HIDE DEF common
<1>7. CASE tx' = [common EXCEPT !.from = transfer[3], !.to = transfer[2],
                                !.token = transfer[1], !.value = transfer[0]]
  <2>1. \A f \in Shown :
          tx'[f] \in {common[f], transfer[0], transfer[1], transfer[2], transfer[3]}
    BY <1>1, <1>5, <1>7 DEF TxType, Shown
  <2>2. QED
    BY <1>3, <1>6, <2>1
<1>8. CASE tx' = [common EXCEPT !.from = gas[3], !.name = custom.name,
                                !.method = custom.method]
  <2>1. \A f \in Shown : tx'[f] \in {common[f], gas[3], custom.name, custom.method}
    BY <1>1, <1>5, <1>8 DEF TxType, Shown
  <2>2. QED
    BY <1>3, <1>6, <2>1
<1>9. QED
  BY <1>4, <1>7, <1>8 DEF common

(* Every step keeps what is displayed short.                               *)
LEMMA ShortKept ==
  ASSUME Inv, ShortInv, [Next]_vars
  PROVE  ShortInv'
<1>1. tx \in TxType
  BY DEF Inv, TypeInv
<1>2. ASSUME UNCHANGED raw, \A c \in Calls : ShortCall(calls'[c]),
             \A f \in Shown : Short(tx'[f])
      PROVE  ShortInv'
  BY <1>2 DEF ShortInv, ShortCall, Short
<1>3. ASSUME UNCHANGED <<raw, calls>>, \A f \in Shown : tx'[f] = tx[f]
      PROVE  ShortInv'
  BY <1>2, <1>3 DEF ShortInv
<1>4. CASE ScriptStep
  <2>1. UNCHANGED raw
    BY <1>4, ScriptStepFrame
  <2>2. \A f \in Shown : tx'[f] = tx[f]
    <3>1. \/ UNCHANGED tx
          \/ \E type : tx' = [tx EXCEPT !.type = type]
      <4>1. CASE ReadLoad \/ ReadPush \/ ReadCtx \/ ReadSwitch \/ ReadExtcall \/ ReadEnd
        BY <4>1 DEF ReadLoad, ReadPush, ReadCtx, ReadSwitch, ReadExtcall, ReadEnd, ReadLast
      <4>2. CASE ScanLoad \/ ScanPush \/ ScanCtx \/ ScanExtcall \/ ScanOther \/ ScanEnd
        <5>1. \/ \E args, isInterop : Scanned(args, isInterop)
              \/ \E o, args : ScanOn(o, args)
          BY <4>2 DEF ScanLoad, ScanPush, ScanCtx, ScanExtcall, ScanOther, ScanEnd
        <5>2. QED
          BY <5>1 DEF Scanned, ScanOn
      <4>3. QED
        BY <1>4, <4>1, <4>2 DEF ScriptStep
    <3>2. QED
      BY <1>1, <3>1 DEF TxType, Shown
  <2>3. \A f \in Shown : Short(tx'[f])
    BY <2>2 DEF ShortInv
  <2>4. QED
    BY <1>2, <1>4, <2>1, <2>3, CallsKeptShort
<1>5. CASE ReadNexus \/ ReadChain \/ ReadScript \/ ReadPayload
  <2>1. PICK name, max, zero, overflow, parsing, next :
          name \in HeadPc /\ Field(name, max, zero, overflow, parsing, next)
    BY <1>5 DEF ReadNexus, ReadChain, ReadScript, ReadPayload, HeadPc
  <2>2. UNCHANGED <<raw, calls>> /\ \A f \in DOMAIN tx \ {name} : tx'[f] = tx[f]
    BY <2>1, FieldLimit
  <2>3. \A f \in Shown : f \in DOMAIN tx \ {name}
    <3>1. name \in HeadPc
      BY <2>1
    <3>2. QED
      BY <1>1, <3>1 DEF TxType, Shown, HeadPc
  <2>4. QED
    BY <1>3, <2>2, <2>3
<1>6. CASE CheckLength \/ JoinArg \/ JoinNothing
  BY <1>3, <1>6 DEF CheckLength, JoinArg, JoinNothing, Overrun, scriptVars
<1>7. CASE ReadExpiration
  <2>1. \A f \in Shown : tx'[f] = tx[f]
    BY <1>1, <1>7 DEF ReadExpiration, TxType, Shown
  <2>2. QED
    BY <1>3, <1>7, <2>1 DEF ReadExpiration
<1>8. CASE SetFields
  <2>1. UNCHANGED <<raw, calls>>
    BY <1>8 DEF SetFields
  <2>2. \A c \in Calls : ShortCall(calls'[c])
    BY <2>1 DEF ShortInv
  <2>3. QED
    BY <1>2, <1>8, <2>1, <2>2, FieldsKeptShort
<1>9. CASE UNCHANGED vars
  BY <1>3, <1>9 DEF vars, scriptVars
<1>10. QED
  BY <1>4, <1>5, <1>6, <1>7, <1>8, <1>9 DEF Next, TransactionStep, Returned

(* Whatever the transaction, what a review displays of it is within the    *)
(* limits of the header, or at most 255 bytes that begin inside it.        *)
THEOREM DisplayedIsBounded == Spec => []FieldsAreBounded
<1>1. Init => LimitInv
  BY DEF Init, LimitInv, ScriptPc
<1>2. Init => ShortInv
  <2> SUFFICES ASSUME Init PROVE ShortInv
    OBVIOUS
  <2>1. raw \in Seq(0 .. 255)
    BY InputsAssumption DEF Init
  <2>2. Short(Nothing)
    BY <2>1, LenProperties DEF Short, Nothing
  <2>3. \A f \in Shown : tx[f] = Nothing
    BY DEF Init, ZeroTransaction, Shown
  <2>4. \A n : ShortCall(ZeroCall(n))
    BY <2>2 DEF ZeroCall, ShortCall
  <2>5. calls = [c \in Calls |-> ZeroCall(IF c = "spend_gas" THEN 1 ELSE MAX_ARGS_LEN)]
    BY DEF Init
  <2>6. \A c \in Calls : ShortCall(calls[c])
    BY <2>4, <2>5
  <2>7. QED
    BY <2>2, <2>3, <2>6 DEF ShortInv
<1>3. LimitInv /\ ShortInv => FieldsAreBounded
  BY DEF LimitInv, ShortInv, FieldsAreBounded, Short, Shown
<1>4. QED
  BY <1>1, <1>2, <1>3, Invariance, LimitKept, ShortKept, PTL DEF Spec
=============================================================================
