------------------------------ MODULE TxParser ------------------------------
(***************************************************************************)
(* transaction_deserialize (transaction/deserialize.c): from the bytes of  *)
(* raw_tx to the fields a review displays.                                 *)
(*                                                                         *)
(* The parser is a loop over two cursors: off in the transaction and soff  *)
(* in its script, with a third one, scan.off, in the copy of the script    *)
(* cursor that the two look-ahead functions run on.  An action is one      *)
(* instruction of the script or one field of the transaction, with the     *)
(* whole of what the C function does to the cursor when it fails: most of  *)
(* those failures are ignored by the caller, which goes on where the       *)
(* cursor was left.                                                        *)
(***************************************************************************)
EXTENDS Integers, Sequences

CONSTANT Inputs   \* the byte sequences the host may have uploaded

ASSUME InputsAssumption == Inputs \subseteq Seq(0 .. 255)

MAX_TRANSACTION_LEN == 1020
NEXUS_LEN    == 16
CHAIN_LEN    == 16
PAYLOAD_LEN  == 64
SCRIPT_LEN   == MAX_TRANSACTION_LEN - (CHAIN_LEN + NEXUS_LEN + PAYLOAD_LEN)
MAX_ARGS_LEN == 4
OUTPUT_LEN   == 240      \* sizeof output_args

PUSH    == 3
EXTCALL == 7
RET     == 11
LOAD    == 13
CTX     == 45
SWITCH  == 46
COMMA   == 44

VARIABLES
  raw,      \* the transaction (buf)
  pc,       \* the read that comes next
  status,   \* what transaction_deserialize returns
  off,      \* buf->offset
  tx,       \* the transaction_t: slices of raw
  call,     \* the call of the script that is being read
  calls,    \* what was read of each of the calls
  ix,       \* index into the arguments of a call
  pushing,  \* read_load_push has read its LOAD
  soff,     \* script_buf->offset
  scan,     \* look-ahead: offset in the copy, loads counted
  ignored,  \* history: failures a caller ignored
  joined    \* output_args, without its terminating NUL

scriptVars == <<call, calls, ix, pushing, soff, scan, ignored>>
vars == <<raw, pc, status, off, tx, scriptVars, joined>>

Calls == {"allow_gas", "transfer_tokens", "contract_call", "spend_gas"}
Nothing == [at |-> 0, len |-> 0]      \* a zeroed buffer_t

(* Byte i of raw_tx.  Chunk 0 zeroed raw_tx beyond what was uploaded.      *)
Byte(i) == IF i < Len(raw) THEN raw[i + 1] ELSE 0
Text(s) == [k \in 1 .. s.len |-> Byte(s.at + k - 1)]

-----------------------------------------------------------------------------
(* The fields of the transaction.                                          *)
Return(s) == pc' = "done" /\ status' = s

CheckLength ==
  /\ pc = "start"
  /\ \/ Len(raw) > MAX_TRANSACTION_LEN /\ Return("LENGTH_OVERFLOW_ERROR")
     \/ raw = <<>> /\ Return("LENGTH_ZERO_ERROR")
     \/ Len(raw) \in 1 .. MAX_TRANSACTION_LEN /\ pc' = "nexus" /\ UNCHANGED status
  /\ UNCHANGED <<raw, off, tx, scriptVars, joined>>

(* buffer_read_varint: a value of 1, 2, 4 or 8 bytes, little endian, and   *)
(* the offset behind it; 0 where it stood if the bytes are not there.      *)
(* Values that need a third byte exceed every limit they are compared with.*)
Varint(o) ==
  LET width == IF o >= Len(raw) \/ Byte(o) < 253 THEN 1
               ELSE IF Byte(o) = 253 THEN 3
               ELSE IF Byte(o) = 254 THEN 5 ELSE 9
      Low   == Byte(o + 1) + 256 * Byte(o + 2)
  IN  IF o + width > Len(raw) THEN [value |-> 0, next |-> o]
      ELSE [next  |-> o + width,
            value |-> IF width = 1 THEN Byte(o)
                      ELSE IF \A k \in 3 .. width - 1 : Byte(o + k) = 0
                           THEN Low ELSE 65536]

(* Deviation: a field is taken to start where its length starts.           *)
FieldAtLength(name, max, zero, overflow, parsing, next) ==
  /\ pc = name
  /\ LET length == Varint(off)
         end    == length.next + length.value
     IN  /\ length.value \in 1 .. max /\ end <= Len(raw)
         /\ pc' = next /\ UNCHANGED status
         /\ off' = end
         /\ tx' = [tx EXCEPT ![name] = [at |-> off, len |-> length.value]]
  /\ UNCHANGED <<raw, scriptVars, joined>>

(* The failures of a field that starts with its length.  The result of     *)
(* buffer_read_varint is ignored: no length is a length of zero.  What a   *)
(* refused field leaves in tx is read by nobody.                           *)
Field(name, max, zero, overflow, parsing, next) ==
  /\ pc = name
  /\ LET length == Varint(off)
         end    == length.next + length.value
     IN  \/ /\ length.value > max /\ Return(overflow)
            /\ off' = length.next /\ UNCHANGED tx
         \/ /\ length.value = 0 /\ Return(zero)
            /\ off' = length.next /\ UNCHANGED tx
         \/ /\ length.value \in 1 .. max /\ end > Len(raw) /\ Return(parsing)
            /\ off' = length.next /\ UNCHANGED tx
         \/ /\ length.value \in 1 .. max /\ end <= Len(raw)
            /\ pc' = next /\ UNCHANGED status
            /\ off' = end
            /\ tx' = [tx EXCEPT ![name] = [at |-> length.next, len |-> length.value]]
  /\ UNCHANGED <<raw, scriptVars, joined>>

ReadNexus   == Field("nexus", NEXUS_LEN, "NEXUS_ZERO_ERROR",
                     "NEXUS_OVERFLOW_ERROR", "NEXUS_PARSING_ERROR", "chain")
ReadChain   == Field("chain", CHAIN_LEN, "CHAIN_ZERO_ERROR",
                     "CHAIN_OVERFLOW_ERROR", "CHAIN_PARSING_ERROR", "script")
ReadScript  == Field("script", SCRIPT_LEN, "SCRIPT_ZERO_ERROR",
                     "SCRIPT_OVERFLOW_ERROR", "SCRIPT_PARSING_ERROR", "count")
ReadPayloadAsScript ==           \* deviation: the limit of another field
  Field("payload", SCRIPT_LEN, "PAYLOAD_ZERO_ERROR",
        "PAYLOAD_OVERFLOW_ERROR", "PAYLOAD_PARSING_ERROR", "fields")

ReadPayload == Field("payload", PAYLOAD_LEN, "PAYLOAD_ZERO_ERROR",
                     "PAYLOAD_OVERFLOW_ERROR", "PAYLOAD_PARSING_ERROR", "fields")

(* buffer_read_u32: four bytes, or zero with the offset where it stood.    *)
ReadExpiration ==
  /\ pc = "expiration"
  /\ pc' = "payload"
  /\ LET ok == off + 4 <= Len(raw)
     IN  /\ off' = IF ok THEN off + 4 ELSE off
         /\ tx' = [tx EXCEPT !.expiration =
                     IF ok THEN SubSeq(raw, off + 1, off + 4) ELSE <<0, 0, 0, 0>>]
         /\ ignored' = IF ok THEN ignored ELSE ignored \cup {"EXPIRATION_UNREAD"}
  /\ UNCHANGED <<raw, status, call, calls, ix, pushing, soff, scan, joined>>

-----------------------------------------------------------------------------
(* The script.  read_contract and read_interop read                        *)
(*    (LOAD PUSH)*  LOAD PUSH  LOAD  CTX  SWITCH     and                   *)
(*    (LOAD PUSH)*  LOAD  EXTCALL                                          *)
Size  == tx.script.len
Op(o) == Byte(tx.script.at + o)

(* read_contract, read_interop or read_end returns s, the cursor at o, and *)
(* script_deserialize goes on: it heeds only the failure of contract_call, *)
(* and transaction_deserialize ignores even that one.                      *)
EndCall(s, o) ==
  /\ soff' = o
  /\ pushing' = FALSE
  /\ scan' = [off |-> o, args |-> 0]
  /\ ignored' = IF s = "PARSING_OK" THEN ignored ELSE ignored \cup {s}
  /\ pc' = CASE pc = "end" -> "expiration"
             [] pc # "end" /\ call = "allow_gas" -> "interop"
             [] pc # "end" /\ call = "transfer_tokens" -> "count"
             [] pc # "end" /\ call = "contract_call" ->
                  IF s = "PARSING_OK" THEN "count" ELSE "expiration"
             [] pc # "end" /\ call = "spend_gas" -> "end"
  /\ call' = IF call \in {"transfer_tokens", "contract_call"} THEN "spend_gas" ELSE call

(* An instruction with n operands is there; or it is not, and the cursor   *)
(* stays behind the bytes that were read.                                  *)
Reads(opcode, n) == soff + 1 + n <= Size /\ Op(soff) = opcode

Fails(opcode, n, wrong) ==
  /\ \/ soff >= Size /\ EndCall("SCRIPT_PARSING_ERROR", soff)
     \/ soff < Size /\ Op(soff) # opcode /\ EndCall(wrong, soff + 1)
     \/ /\ soff < Size /\ Op(soff) = opcode
        /\ soff + 1 + n > Size
        /\ EndCall("SCRIPT_PARSING_ERROR", Size)
  /\ UNCHANGED <<calls, ix>>

(* The program writes or reads outside of an array.  Nothing is said of    *)
(* what it does then: the model ends here.                                 *)
Overrun == pc' = "overrun" /\ UNCHANGED <<call, calls, ix, scan, ignored>>

(* read_load.  The seek over the value is skipped if it would leave the    *)
(* script, and that is not a failure.                                      *)
BehindAnyway(o, len) == o + len      \* deviation: the seek is not checked

Behind(o, len) == IF o + len <= Size THEN o + len ELSE o

ReadLoad ==
  /\ pc \in {"args", "method", "name"} /\ ~pushing
  /\ \/ Fails(LOAD, 3, "SCRIPT_PARSING_ERROR_OPCODE_LOAD13")
     \/ /\ Reads(LOAD, 3)
        /\ soff' = Behind(soff + 4, Op(soff + 3))
        /\ LET s == [at |-> tx.script.at + soff + 4, len |-> Op(soff + 3)]
           IN  \/ /\ pc = "args" /\ ix >= MAX_ARGS_LEN
                  /\ Overrun /\ UNCHANGED pushing
               \/ /\ pc = "args" /\ ix < MAX_ARGS_LEN
                  /\ calls' = [calls EXCEPT ![call].args[ix] = s]
                  /\ pushing' = TRUE
                  /\ UNCHANGED <<pc, call, ix, scan, ignored>>
               \/ /\ pc # "args"
                  /\ calls' = [calls EXCEPT ![call][pc] = s]
                  /\ pushing' = (pc = "method" /\ call # "transfer_tokens")
                  /\ pc' = CASE pc = "name" -> "ctx"
                             [] pc = "method" -> IF pushing' THEN "method" ELSE "extcall"
                  /\ UNCHANGED <<call, ix, scan, ignored>>
  /\ UNCHANGED <<raw, status, off, tx, joined>>

(* read_push ends read_load_push; read_method_args goes on to its next.    *)
ReadPush ==
  /\ pushing
  /\ \/ Fails(PUSH, 1, "SCRIPT_PARSING_ERROR_OPCODE_PUSH2")
     \/ /\ Reads(PUSH, 1)
        /\ soff' = soff + 2
        /\ pushing' = FALSE
        /\ \/ /\ pc = "args"
              /\ ix' = ix + 1
              /\ pc' = IF ix + 1 < calls[call].args_len THEN "args" ELSE "method"
           \/ /\ pc = "method"
              /\ pc' = "name"
              /\ UNCHANGED ix
        /\ UNCHANGED <<call, calls, scan, ignored>>
  /\ UNCHANGED <<raw, status, off, tx, joined>>

ReadCtx ==
  /\ pc = "ctx"
  /\ \/ Fails(CTX, 2, "SCRIPT_PARSING_ERROR_OPCODE_CTX45")
     \/ /\ Reads(CTX, 2)
        /\ soff' = soff + 3
        /\ pc' = "switch"
        /\ UNCHANGED <<call, calls, ix, pushing, scan, ignored>>
  /\ UNCHANGED <<raw, status, off, tx, joined>>

(* The last instruction of a call, with n operands.                        *)
ReadLast(opcode, n, wrong) ==
  /\ \/ Fails(opcode, n, wrong)
     \/ /\ Reads(opcode, n)
        /\ EndCall("PARSING_OK", soff + 1 + n)
        /\ UNCHANGED <<calls, ix>>
  /\ UNCHANGED <<raw, status, off, tx, joined>>

ReadSwitch  == pc = "switch" /\ ReadLast(SWITCH, 1, "SCRIPT_PARSING_ERROR_OPCODE_SWITCH46")
ReadExtcall == pc = "extcall" /\ ReadLast(EXTCALL, 1, "SCRIPT_PARSING_ERROR_OPCODE_EXTCALL7")
ReadEnd     == pc = "end" /\ ReadLast(RET, 0, "SCRIPT_PARSING_ERROR_OPCODE_RET11")

-----------------------------------------------------------------------------
(* The look-ahead of get_number_of_args_contract ("count") and is_interop  *)
(* ("interop"): the same walk over a copy of the cursor.                   *)
Scanning == pc \in {"count", "interop"}
ScanSees(opcode) == Scanning /\ scan.off < Size /\ Op(scan.off) = opcode

(* Deviation: the count is not kept in eight bits.                         *)
ScannedUnwrapped(args, isInterop) ==
  /\ \/ /\ pc = "count"
        /\ calls' = [calls EXCEPT ![call].args_len = args]
        /\ ix' = 0
        /\ pc' = IF args = 0 THEN "method" ELSE "args"
        /\ UNCHANGED <<call, scan, tx>>
     \/ /\ pc = "interop"
        /\ call' = IF isInterop THEN "transfer_tokens" ELSE "contract_call"
        /\ tx' = [tx EXCEPT !.type = IF isInterop THEN "TRANSFER" ELSE "CUSTOM"]
        /\ scan' = [off |-> soff, args |-> 0]
        /\ pc' = "count"
        /\ UNCHANGED <<calls, ix>>
  /\ UNCHANGED <<raw, status, off, pushing, soff, ignored, joined>>

Scanned(args, isInterop) ==
  /\ \/ /\ pc = "count"          \* uint8_t args
        /\ calls' = [calls EXCEPT ![call].args_len = args % 256]
        /\ ix' = 0
        /\ pc' = IF args % 256 = 0 THEN "method" ELSE "args"
        /\ UNCHANGED <<call, scan, tx>>
     \/ /\ pc = "interop"
        /\ call' = IF isInterop THEN "transfer_tokens" ELSE "contract_call"
        /\ tx' = [tx EXCEPT !.type = IF isInterop THEN "TRANSFER" ELSE "CUSTOM"]
        /\ scan' = [off |-> soff, args |-> 0]
        /\ pc' = "count"
        /\ UNCHANGED <<calls, ix>>
  /\ UNCHANGED <<raw, status, off, pushing, soff, ignored, joined>>

(* Deviation: every turn of the look-ahead copies the cursor anew.         *)
ScanOnAnew(o, args) ==
  /\ scan' = [off |-> soff, args |-> args]
  /\ UNCHANGED <<raw, pc, status, off, tx, call, calls, ix, pushing, soff, ignored, joined>>

ScanOn(o, args) ==
  /\ scan' = [off |-> o, args |-> args]
  /\ UNCHANGED <<raw, pc, status, off, tx, call, calls, ix, pushing, soff, ignored, joined>>

ScanLoad ==                      \* counted before its operands are read
  /\ ScanSees(LOAD)
  /\ \/ scan.off + 4 > Size /\ Scanned(scan.args + 1, FALSE)
     \/ /\ scan.off + 4 <= Size
        /\ ScanOn(Behind(scan.off + 4, Op(scan.off + 3)), scan.args + 1)

ScanPush ==
  /\ ScanSees(PUSH)
  /\ \/ scan.off + 2 > Size /\ Scanned(scan.args, FALSE)
     \/ scan.off + 2 <= Size /\ ScanOn(scan.off + 2, scan.args)

(* Deviation: the name of the contract stays counted.                      *)
ScanCtxKeepingName == ScanSees(CTX) /\ Scanned(scan.args - 1, FALSE)

(* Method and contract name, or the method, were counted as arguments.     *)
ScanCtx     == ScanSees(CTX) /\ Scanned(scan.args - 2, FALSE)
ScanExtcall == ScanSees(EXTCALL) /\ Scanned(scan.args - 1, TRUE)

(* Deviation: the byte is not consumed.                                    *)
ScanOtherInPlace ==
  /\ \E opcode \in (0 .. 255) \ {LOAD, PUSH, CTX, EXTCALL} : ScanSees(opcode)
  /\ ScanOn(scan.off, scan.args)

ScanOther ==
  /\ \E opcode \in (0 .. 255) \ {LOAD, PUSH, CTX, EXTCALL} : ScanSees(opcode)
  /\ ScanOn(scan.off + 1, scan.args)

ScanEnd == Scanning /\ scan.off >= Size /\ Scanned(scan.args, FALSE)

-----------------------------------------------------------------------------
(* The fields under review, taken from the calls that were read.           *)
SetFields ==
  /\ pc = "fields"
  /\ LET gas      == calls["allow_gas"].args
         transfer == calls["transfer_tokens"].args
         custom   == calls["contract_call"]
         common   == [tx EXCEPT !.gas_price = gas[1], !.gas_limit = gas[0]]
     IN  \/ /\ tx.type = "TRANSFER"
            /\ tx' = [common EXCEPT !.from = transfer[3], !.to = transfer[2],
                                    !.token = transfer[1], !.value = transfer[0]]
            /\ Return("PARSING_OK")
            /\ UNCHANGED ix
         \/ /\ tx.type = "CUSTOM"
            /\ tx' = [common EXCEPT !.from = gas[3], !.name = custom.name,
                                    !.method = custom.method]
            /\ pc' = "join"
            /\ ix' = custom.args_len - 1
            /\ UNCHANGED status
  /\ UNCHANGED <<raw, off, call, calls, pushing, soff, scan, ignored, joined>>

(* process_load_push_array: the arguments, last one first, with commas, in *)
(* what remains of output_args; args_len need not be a number of arguments *)
(* that were read, nor need an argument lie inside raw_tx.  output_args is *)
(* a local that tx->output_args still points at after the return.          *)
CopiedForgettingComma(len, remaining) ==     \* deviation
  IF len >= remaining - 1 THEN remaining - 1 ELSE len

Copied(len, remaining) == IF len >= remaining - 2 THEN remaining - 2 ELSE len

JoinArg ==
  /\ pc = "join" /\ ix >= 0
  /\ \/ ix >= MAX_ARGS_LEN /\ Overrun /\ UNCHANGED <<status, joined>>
     \/ /\ ix < MAX_ARGS_LEN
        /\ LET arg       == calls["contract_call"].args[ix]
               remaining == OUTPUT_LEN - Len(joined)
               to_copy   == Copied(arg.len, remaining)
               text      == joined \o Text([arg EXCEPT !.len = to_copy])
           IN  \/ /\ arg.at + to_copy > MAX_TRANSACTION_LEN
                  /\ Overrun /\ UNCHANGED <<status, joined>>
               \/ /\ arg.at + to_copy <= MAX_TRANSACTION_LEN
                  /\ joined' = IF ix > 0 THEN Append(text, COMMA) ELSE text
                  /\ IF ix > 0 /\ OUTPUT_LEN - Len(joined') > 1
                     THEN ix' = ix - 1 /\ UNCHANGED <<pc, status>>
                     ELSE Return("PARSING_OK") /\ UNCHANGED ix
                  /\ UNCHANGED <<call, calls, scan, ignored>>
  /\ UNCHANGED <<raw, off, tx, pushing, soff>>

JoinNothing ==
  /\ pc = "join" /\ ix < 0
  /\ Return("PARSING_OK")
  /\ UNCHANGED <<raw, off, tx, scriptVars, joined>>

-----------------------------------------------------------------------------
ZeroCall(args_len) == [args |-> [i \in 0 .. MAX_ARGS_LEN - 1 |-> Nothing],
                       args_len |-> args_len, method |-> Nothing, name |-> Nothing]

(* The memsets of script_deserialize and the zeroed transaction_t.         *)
ZeroTransaction ==
  [nexus |-> Nothing, chain |-> Nothing, script |-> Nothing, payload |-> Nothing,
   from |-> Nothing, to |-> Nothing, token |-> Nothing, value |-> Nothing,
   gas_limit |-> Nothing, gas_price |-> Nothing, method |-> Nothing,
   name |-> Nothing, expiration |-> <<0, 0, 0, 0>>, type |-> "TRANSFER"]

Init ==
  /\ raw \in Inputs
  /\ pc = "start" /\ status = "none" /\ off = 0
  /\ tx = ZeroTransaction
  /\ call = "allow_gas"
  /\ calls = [c \in Calls |-> ZeroCall(IF c = "spend_gas" THEN 1 ELSE MAX_ARGS_LEN)]
  /\ ix = 0 /\ pushing = FALSE /\ soff = 0
  /\ scan = [off |-> 0, args |-> 0]
  /\ ignored = {} /\ joined = <<>>

ScriptStep ==
  \/ ReadLoad \/ ReadPush \/ ReadCtx \/ ReadSwitch \/ ReadExtcall \/ ReadEnd
  \/ ScanLoad \/ ScanPush \/ ScanCtx \/ ScanExtcall \/ ScanOther \/ ScanEnd

TransactionStep ==
  \/ CheckLength \/ ReadNexus \/ ReadChain \/ ReadScript
  \/ ReadExpiration \/ ReadPayload
  \/ SetFields \/ JoinArg \/ JoinNothing

Ended    == pc \in {"done", "overrun"}
Returned == Ended /\ UNCHANGED vars

Next == ScriptStep \/ TransactionStep \/ Returned
Spec == Init /\ [][Next]_vars

(* The function runs to its end once it is called.                         *)
FairSpec == Spec /\ WF_vars(Next)

-----------------------------------------------------------------------------
(* The state of the parser has its types.                                  *)
Slice == [at : Nat, len : Nat]
Offsets == 0 .. MAX_TRANSACTION_LEN

ParserTypeOK ==
  /\ raw \in Seq(0 .. 255)
  /\ pc \in {"start", "nexus", "chain", "script", "count", "interop", "args", "method",
            "name", "ctx", "switch", "extcall", "end", "expiration", "payload",
            "fields", "join", "done", "overrun"}
  /\ off \in Nat
  /\ \A f \in DOMAIN tx \ {"expiration", "type"} : tx[f] \in Slice
  /\ tx.expiration \in [1 .. 4 -> 0 .. 255] /\ tx.type \in {"TRANSFER", "CUSTOM"}
  /\ call \in Calls
  /\ calls \in [Calls -> [args : [0 .. MAX_ARGS_LEN - 1 -> Slice], args_len : 0 .. 255,
                          method : Slice, name : Slice]]
  /\ ix \in -1 .. 255 /\ pushing \in BOOLEAN
  /\ soff \in Nat /\ scan \in [off : Nat, args : Nat]
  /\ joined \in Seq(0 .. 255)

(* However the script is damaged, no cursor leaves what it runs on, and    *)
(* the script lies inside the transaction: the reads of the parser, and    *)
(* those of its two look-aheads, stay inside raw_tx.                       *)
OffsetsInside ==
  /\ off <= Len(raw)
  /\ tx.script.at + tx.script.len <= Len(raw)
  /\ soff <= Size
  /\ scan.off <= Size

(* process_load_push_array leaves room for the terminating NUL, whatever   *)
(* the lengths of the arguments.                                           *)
OutputFits == Len(joined) < OUTPUT_LEN

(* What is displayed is within the limits of the header, or at most 255    *)
(* bytes that begin inside the transaction: how far beyond its end a       *)
(* display function reads when an argument was cut.                        *)
FieldsAreBounded ==
  /\ status = "PARSING_OK" =>
       /\ tx.nexus.len \in 1 .. NEXUS_LEN /\ tx.chain.len \in 1 .. CHAIN_LEN
       /\ tx.script.len \in 1 .. SCRIPT_LEN /\ tx.payload.len \in 1 .. PAYLOAD_LEN
  /\ \A f \in {"from", "to", "token", "value", "gas_limit", "gas_price", "method", "name"} :
       tx[f].at <= Len(raw) /\ tx[f].len <= 255

(* How far the parser is: the call that it reads and the part of it, and,  *)
(* where it loops, the turns that are left.                                *)
Part(p) ==
  [start |-> 0, nexus |-> 1, chain |-> 2, script |-> 3,
   count |-> 4, args |-> 5, method |-> 6, name |-> 7, ctx |-> 8,
   switch |-> 9, extcall |-> 9, interop |-> 10, end |-> 10,
   expiration |-> 11, payload |-> 12, fields |-> 13, join |-> 14,
   done |-> 15, overrun |-> 15][p]

Earlier(c) ==
  [allow_gas |-> 0, transfer_tokens |-> 10, contract_call |-> 10, spend_gas |-> 20][c]

Stage == Earlier(call) + Part(pc)

Turns ==
  CASE pc \in {"count", "interop"} -> Size - scan.off
    [] pc = "args" -> 2 * (calls[call].args_len - ix) - (IF pushing THEN 1 ELSE 0)
    [] pc = "method" -> IF pushing THEN 0 ELSE 1
    [] pc = "join" -> ix + 1
    [] OTHER -> 0

(* No step of the parser leads back to where it was: it goes on to a later *)
(* part, of which there are so many, or takes one of the turns that are    *)
(* left.  What it skips, ignores or counts in eight bits does not make it  *)
(* read anything twice.                                                    *)
GoesForward ==
  /\ Stage \in 0 .. Earlier("spend_gas") + Part("done") /\ Turns \in Nat
  /\ Stage' > Stage \/ (Stage' = Stage /\ Turns' < Turns)

AlwaysForward == [][GoesForward]_vars

(* The parser ends, on every script: it never reads in place.              *)
Terminates == <>Ended
=============================================================================
