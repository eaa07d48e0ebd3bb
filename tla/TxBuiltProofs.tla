---------------------------- MODULE TxBuiltProofs ----------------------------
(***************************************************************************)
(* Proof that the parser reads what a wallet built: for every transaction  *)
(* a wallet may describe, whatever its texts contain, every behaviour of   *)
(* the parser on the bytes of that transaction ends with what the wallet   *)
(* described.                                                              *)
(***************************************************************************)
EXTENDS TxFormatProofs

(* The calls of a script, and what the wallet described of each.           *)
Main(d)    == IF d.type = "TRANSFER" THEN "transfer_tokens" ELSE "contract_call"
CallsOf(d) == {"allow_gas", Main(d), "spend_gas"}

ArgsOf(d, c) ==
  IF c = "allow_gas" THEN d.gas ELSE IF c = "spend_gas" THEN <<d.gas[1]>> ELSE d.args
MethodOf(d, c) ==
  IF c = "allow_gas" THEN d.allow ELSE IF c = "spend_gas" THEN d.spend ELSE d.method
NameOf(d, c) == IF c \in {"allow_gas", "spend_gas"} THEN d.contract ELSE d.name
TextOf(d, c) ==
  IF c = "transfer_tokens" THEN CallInterop(ArgsOf(d, c), MethodOf(d, c))
                           ELSE CallContract(ArgsOf(d, c), MethodOf(d, c), NameOf(d, c))

(* What the script still holds behind a call, and from each of the         *)
(* instructions of a call on.                                              *)
After(d, c) ==
  IF c = "spend_gas" THEN <<RET>>
  ELSE IF c = "allow_gas" THEN TextOf(d, Main(d)) \o (TextOf(d, "spend_gas") \o <<RET>>)
  ELSE TextOf(d, "spend_gas") \o <<RET>>

FromSwitch(d, c)  == <<SWITCH, 1>> \o After(d, c)
FromCtx(d, c)     == <<CTX, 0, 1>> \o FromSwitch(d, c)
FromName(d, c)    == LoadText(NameOf(d, c)) \o FromCtx(d, c)
FromExtcall(d, c) == <<EXTCALL, 0>> \o After(d, c)
FromPush(s)       == <<PUSH, 0>> \o s
FromMethod(d, c)  == LoadText(MethodOf(d, c))
                       \o (IF c = "transfer_tokens" THEN FromExtcall(d, c)
                                                    ELSE FromPush(FromName(d, c)))
FromArgs(d, c, k) == Pushed(ArgsOf(d, c))[k] \o FromMethod(d, c)    \* k of them to go
FromCall(d, c)    == TextOf(d, c) \o After(d, c)

(* What the transaction still holds from its fields on.                    *)
FromPayload(d)    == LengthAndText(d.payload)
FromExpiration(d) == d.expiration \o FromPayload(d)
FromScript(d)     == LengthAndText(Script(d)) \o FromExpiration(d)
FromChain(d)      == LengthAndText(d.chain) \o FromScript(d)
FromNexus(d)      == LengthAndText(d.nexus) \o FromChain(d)

-----------------------------------------------------------------------------
(* The bytes r hold s at offset o; the slice f of them is the text t; and  *)
(* what the slice f of them, a script, has left at its offset o is s.      *)
Holds(r, o, s)   == o + Len(s) <= Len(r) /\ \A i \in 1 .. Len(s) : r[o + i] = s[i]
Says(r, f, t)    == f.len = Len(t) /\ Holds(r, f.at, t)
Left(r, f, o, s) == o + Len(s) = f.len /\ Holds(r, f.at + o, s)

(* Of call c, read into k, the first m arguments; and all of it.           *)
SaysArgs(r, k, d, c, m) ==
  \A i \in 0 .. m - 1 : Says(r, k.args[i], ArgsOf(d, c)[Len(ArgsOf(d, c)) - i])

SaysCall(r, k, d, c) ==
  /\ k.args_len = Len(ArgsOf(d, c)) /\ SaysArgs(r, k, d, c, Len(ArgsOf(d, c)))
  /\ Says(r, k.method, MethodOf(d, c))
  /\ c # "transfer_tokens" => Says(r, k.name, NameOf(d, c))

(* The header of the transaction.                                          *)
HeaderBuilt(d) ==
  /\ pc \in {"start", "nexus"} => off = 0
  /\ pc \notin {"start", "nexus"} => Says(raw, tx.nexus, d.nexus)
  /\ pc \notin {"start", "nexus", "chain"} => Says(raw, tx.chain, d.chain)
  /\ pc \notin {"start", "nexus", "chain", "script"} => Says(raw, tx.script, Script(d))
  /\ pc = "chain" => Holds(raw, off, FromChain(d))
  /\ pc = "script" => Holds(raw, off, FromScript(d))
  /\ pc \in ScriptPc \cup {"expiration"} => Holds(raw, off, FromExpiration(d))
  /\ pc = "payload" => Holds(raw, off, FromPayload(d))
  /\ pc \in {"fields", "join", "done"} => Says(raw, tx.payload, d.payload)

(* The calls that were read, and the type that was recognized.             *)
CallsBuilt(d) ==
  /\ call \in CallsOf(d)
  /\ pc \in {"start", "nexus", "chain", "script"} =>
       call = "allow_gas" /\ ~pushing /\ scan.args = 0
  /\ pc \in {"expiration", "payload", "fields", "join", "done"} => call = "spend_gas"
  /\ pc = "interop" \/ call # "allow_gas" =>
       SaysCall(raw, calls["allow_gas"], d, "allow_gas")
  /\ call # "allow_gas" => tx.type = d.type
  /\ call = "spend_gas" => SaysCall(raw, calls[Main(d)], d, Main(d))

(* The call that is being read.                                            *)
ReadingBuilt(d) ==
  LET n       == Len(ArgsOf(d, call))
      Has(s)  == Left(raw, tx.script, soff, s)
      Read(m) == calls[call].args_len = n /\ SaysArgs(raw, calls[call], d, call, m)
      method  == Says(raw, calls[call].method, MethodOf(d, call))
      name    == Says(raw, calls[call].name, NameOf(d, call))
      interop == call = "transfer_tokens"
  IN  /\ pc = "count" => ~pushing /\ Has(FromCall(d, call))
      /\ pc = "interop" => ~pushing /\ call = "allow_gas" /\ Has(FromCall(d, Main(d)))
      /\ pc = "args" /\ ~pushing => ix < n /\ Read(ix) /\ Has(FromArgs(d, call, n - ix))
      /\ pc = "args" /\ pushing =>
           ix < n /\ Read(ix + 1) /\ Has(FromPush(FromArgs(d, call, n - (ix + 1))))
      /\ pc = "method" /\ ~pushing => Read(n) /\ Has(FromMethod(d, call))
      /\ pc = "method" /\ pushing =>
           ~interop /\ Read(n) /\ method /\ Has(FromPush(FromName(d, call)))
      /\ pc = "name" => ~interop /\ Read(n) /\ method /\ Has(FromName(d, call))
      /\ pc = "ctx" => ~interop /\ Read(n) /\ method /\ name /\ Has(FromCtx(d, call))
      /\ pc = "switch" => ~interop /\ Read(n) /\ method /\ name /\ Has(FromSwitch(d, call))
      /\ pc = "extcall" => interop /\ Read(n) /\ method /\ Has(FromExtcall(d, call))
      /\ pc = "end" => call = "spend_gas" /\ Has(<<RET>>)

(* The look-ahead, at one of the instructions of the call ahead of it,     *)
(* with the loads that it counted.                                         *)
ScanAt(r, f, o, args, d, c) ==
  LET n == Len(ArgsOf(d, c))
  IN  \/ \E k \in 0 .. n : args = n - k /\ Left(r, f, o, FromArgs(d, c, k))
      \/ \E k \in 0 .. n - 1 : args = n - k /\ Left(r, f, o, FromPush(FromArgs(d, c, k)))
      \/ /\ c = "transfer_tokens"
         /\ args = n + 1 /\ Left(r, f, o, FromExtcall(d, c))
      \/ /\ c # "transfer_tokens"
         /\ \/ args = n + 1 /\ Left(r, f, o, FromPush(FromName(d, c)))
            \/ args = n + 1 /\ Left(r, f, o, FromName(d, c))
            \/ args = n + 2 /\ Left(r, f, o, FromCtx(d, c))

ScanBuilt(d) ==
  /\ pc = "count" => ScanAt(raw, tx.script, scan.off, scan.args, d, call)
  /\ pc = "interop" => ScanAt(raw, tx.script, scan.off, scan.args, d, Main(d))

(* The fields under review of transaction t.                               *)
FieldsSet(r, t, d) ==
  /\ Says(r, t.gas_price, d.gas[3]) /\ Says(r, t.gas_limit, d.gas[4])
  /\ d.type = "TRANSFER" => /\ Says(r, t.from, d.args[1]) /\ Says(r, t.to, d.args[2])
                            /\ Says(r, t.token, d.args[3]) /\ Says(r, t.value, d.args[4])
  /\ d.type = "CUSTOM" => /\ Says(r, t.from, d.gas[1])
                          /\ Says(r, t.name, d.name) /\ Says(r, t.method, d.method)

(* The arguments that were joined: all, or as much of them as there is     *)
(* room for.                                                               *)
ListedAsFits(j, args) ==
  IF Len(Listed(args)) <= OUTPUT_LEN - 2
  THEN j = Listed(args)
  ELSE SubSeq(j, 1, OUTPUT_LEN - 2) = SubSeq(Listed(args), 1, OUTPUT_LEN - 2)

ListedSoFar(args, k) == IF k = 0 THEN <<>> ELSE Listing(args)[k] \o <<COMMA>>

FieldsBuilt(d) ==
  /\ pc \notin {"join", "done"} => joined = <<>>
  /\ pc \in {"join", "done"} => FieldsSet(raw, tx, d)
  /\ pc = "join" =>
       /\ d.type = "CUSTOM"
       /\ ix < Len(d.args) /\ (Len(d.args) > 0 => ix >= 0)
       /\ joined = ListedSoFar(d.args, Len(d.args) - (ix + 1))
       /\ Len(joined) <= OUTPUT_LEN - 2
  /\ pc = "done" => status = "PARSING_OK" /\ (d.type = "CUSTOM" => ListedAsFits(joined, d.args))

(* The inductive invariant.                                                *)
BuiltFor(d) ==
  /\ pc # "overrun" /\ ignored = {}
  /\ HeaderBuilt(d) /\ CallsBuilt(d) /\ ReadingBuilt(d) /\ ScanBuilt(d) /\ FieldsBuilt(d)

BuiltInv == \A d \in Built : raw = Build(d) => BuiltFor(d)

-----------------------------------------------------------------------------
(* The texts of a transaction a wallet may describe.                       *)
Assoc3(s, t, u)    == (s \o t) \o u = s \o (t \o u)
Assoc4(s, t, u, v) == ((s \o t) \o u) \o v = s \o (t \o (u \o v))
Assoc6(s, t, u, v, w, x) ==
  (((s \o t) \o u) \o (v \o w)) \o x = s \o (t \o (u \o (v \o (w \o x))))

LEMMA BytesAssoc3 == \A s, t, u \in Bytes : Assoc3(s, t, u)
BY ConcatAssociative DEF Bytes, Assoc3

LEMMA BytesAssoc4 == \A s, t, u, v \in Bytes : Assoc4(s, t, u, v)
<1> SUFFICES ASSUME NEW s \in Bytes, NEW t \in Bytes, NEW u \in Bytes, NEW v \in Bytes
             PROVE  Assoc4(s, t, u, v)
  OBVIOUS
<1>1. s \o t \in Bytes /\ u \o v \in Bytes
  BY BytesConcat
<1>2. Assoc3(s \o t, u, v) /\ Assoc3(s, t, u \o v)
  BY <1>1, BytesAssoc3
<1>3. QED
  BY <1>2 DEF Assoc3, Assoc4

LEMMA BytesAssoc6 == \A s, t, u, v, w, x \in Bytes : Assoc6(s, t, u, v, w, x)
<1> SUFFICES ASSUME NEW s \in Bytes, NEW t \in Bytes, NEW u \in Bytes,
                    NEW v \in Bytes, NEW w \in Bytes, NEW x \in Bytes
             PROVE  Assoc6(s, t, u, v, w, x)
  OBVIOUS
<1>1. (s \o t) \o u \in Bytes /\ v \o w \in Bytes /\ w \o x \in Bytes
  BY BytesConcat
<1>2. v \o (w \o x) \in Bytes
  BY <1>1, BytesConcat
<1>3. Assoc3((s \o t) \o u, v \o w, x)
  BY <1>1, BytesAssoc3
<1>4. Assoc3(v, w, x)
  BY BytesAssoc3
<1>5. Assoc4(s, t, u, v \o (w \o x))
  BY <1>2, BytesAssoc4
<1>6. QED
  BY <1>3, <1>4, <1>5 DEF Assoc3, Assoc4, Assoc6

LEMMA BytesEmpty == \A s \in Bytes : <<>> \o s = s /\ s \o <<>> = s
BY ConcatEmptySeq DEF Bytes

LEMMA TextTypes == \A t \in Texts : t \in Bytes /\ Len(t) \in Nat /\ Len(t) <= 255
BY LenProperties DEF Texts, Bytes

LEMMA LoadTextType ==
  ASSUME NEW t \in Texts
  PROVE  /\ <<LOAD, 0, 4, Len(t)>> \in Bytes /\ Len(<<LOAD, 0, 4, Len(t)>>) = 4
         /\ LoadText(t) \in Bytes /\ Len(LoadText(t)) = 4 + Len(t)
<1>1. t \in Bytes /\ Len(t) \in 0 .. 255 /\ Len(t) \in Nat
  <2>1. t \in Bytes /\ Len(t) \in Nat /\ Len(t) <= 255
    BY TextTypes
  <2>2. \A n \in Nat : n <= 255 => n \in 0 .. 255
    OBVIOUS
  <2>3. QED
    BY <2>1, <2>2
<1>2. LOAD \in 0 .. 255 /\ 0 \in 0 .. 255 /\ 4 \in 0 .. 255
  BY DEF LOAD
<1>3. <<LOAD, 0, 4, Len(t)>> \in Bytes /\ Len(<<LOAD, 0, 4, Len(t)>>) = 4
  BY <1>1, <1>2, Bytes4
<1>4. /\ <<LOAD, 0, 4, Len(t)>> \o t \in Bytes
      /\ Len(<<LOAD, 0, 4, Len(t)>> \o t) = Len(<<LOAD, 0, 4, Len(t)>>) + Len(t)
  BY <1>1, <1>3, BytesConcat
<1>5. QED
  BY <1>3, <1>4 DEF LoadText

LEMMA OpcodeTexts ==
  /\ <<PUSH, 0>> \in Bytes /\ Len(<<PUSH, 0>>) = 2
  /\ <<EXTCALL, 0>> \in Bytes /\ Len(<<EXTCALL, 0>>) = 2
  /\ <<SWITCH, 1>> \in Bytes /\ Len(<<SWITCH, 1>>) = 2
  /\ <<CTX, 0, 1>> \in Bytes /\ Len(<<CTX, 0, 1>>) = 3
  /\ <<RET>> \in Bytes /\ Len(<<RET>>) = 1
<1>1. /\ PUSH \in 0 .. 255 /\ EXTCALL \in 0 .. 255 /\ SWITCH \in 0 .. 255
      /\ CTX \in 0 .. 255 /\ RET \in 0 .. 255 /\ 0 \in 0 .. 255 /\ 1 \in 0 .. 255
  BY DEF PUSH, EXTCALL, SWITCH, CTX, RET
<1>2. QED
  BY <1>1, Bytes1, Bytes2, Bytes3

LEMMA PushTextType ==
  ASSUME NEW s \in Bytes
  PROVE  FromPush(s) \in Bytes
BY OpcodeTexts, BytesConcat DEF FromPush

LEMMA LoadPushType ==
  ASSUME NEW t \in Texts
  PROVE  /\ LoadPush(t) \in Bytes
         /\ \A s \in Bytes : LoadPush(t) \o s = LoadText(t) \o FromPush(s)
<1>1. LoadText(t) \in Bytes /\ <<PUSH, 0>> \in Bytes
  BY LoadTextType, OpcodeTexts
<1>2. QED
  BY <1>1, BytesConcat, BytesAssoc3 DEF LoadPush, FromPush, Assoc3

(* An argument of a list of arguments is a text.                           *)
LEMMA ArgTypes ==
  ASSUME NEW args \in ArgLists
  PROVE  /\ Len(args) \in Nat /\ Len(args) <= MAX_ARGS_LEN
         /\ \A k \in 1 .. Len(args) : args[k] \in Texts
BY LenProperties, ElementOfSeq DEF ArgLists

LEMMA PushedType ==
  ASSUME NEW args \in ArgLists
  PROVE  \A k \in 0 .. Len(args) : Pushed(args)[k] \in Bytes
<1> DEFINE S == {k \in Nat : k <= Len(args) => Pushed(args)[k] \in Bytes}
<1>1. /\ Len(args) \in Nat /\ Pushed(args)[0] = <<>>
      /\ \A k \in 1 .. Len(args) :
           /\ Pushed(args)[k] = LoadPush(args[k]) \o Pushed(args)[k - 1]
           /\ args[k] \in Texts
  BY ArgTypes, PushedUnfolds
<1>2. 0 \in S
  BY <1>1, Bytes0
<1>3. ASSUME NEW k \in Nat, k \in S, k + 1 <= Len(args)
      PROVE  Pushed(args)[k + 1] \in Bytes
  <2>1. k + 1 \in 1 .. Len(args) /\ (k + 1) - 1 = k /\ k <= Len(args)
    BY <1>1, <1>3
  <2>2. Pushed(args)[k + 1] = LoadPush(args[k + 1]) \o Pushed(args)[k]
    BY <1>1, <2>1
  <2>3. LoadPush(args[k + 1]) \in Bytes /\ Pushed(args)[k] \in Bytes
    BY <1>1, <1>3, <2>1, LoadPushType
  <2>4. QED
    BY <2>2, <2>3, BytesConcat
<1>4. Nat \subseteq S
  <2>1. \A k \in Nat : k \in S => k + 1 \in S
    BY <1>3
  <2> HIDE DEF S
  <2>2. QED
    BY <1>2, <2>1, NumbersByInduction
<1>5. QED
  BY <1>1, <1>4

(* What a wallet described of each call.                                   *)
LEMMA Described ==
  ASSUME NEW d \in Built
  PROVE  /\ \A c \in CallsOf(d) : /\ ArgsOf(d, c) \in ArgLists
                                  /\ MethodOf(d, c) \in Texts /\ NameOf(d, c) \in Texts
         /\ Len(ArgsOf(d, "allow_gas")) = 4
         /\ d.type \in {"TRANSFER", "CUSTOM"}
         /\ d.type = "TRANSFER" => Len(d.args) = 4
<1>1. /\ d \in Descriptions /\ Len(d.gas) = 4
      /\ d.type = "TRANSFER" => Len(d.args) = 4
  BY BuiltAssumption
<1>2. /\ d.type \in {"TRANSFER", "CUSTOM"}
      /\ d.gas \in ArgLists /\ d.args \in ArgLists
      /\ d.allow \in Texts /\ d.spend \in Texts /\ d.contract \in Texts
      /\ d.method \in Texts /\ d.name \in Texts
  BY <1>1 DEF Descriptions
<1>3. <<d.gas[1]>> \in ArgLists
  <2>1. 1 \in 1 .. Len(d.gas)
    BY <1>1
  <2>2. d.gas[1] \in Texts
    BY <1>2, <2>1, ArgTypes
  <2>3. <<d.gas[1]>> \in Seq(Texts) /\ Len(<<d.gas[1]>>) = 1
    BY <2>2
  <2>4. QED
    BY <2>3 DEF ArgLists, MAX_ARGS_LEN
<1>4. ASSUME NEW c \in CallsOf(d)
      PROVE  ArgsOf(d, c) \in ArgLists /\ MethodOf(d, c) \in Texts /\ NameOf(d, c) \in Texts
  BY <1>2, <1>3 DEF ArgsOf, MethodOf, NameOf
<1>5. Len(ArgsOf(d, "allow_gas")) = 4
  BY <1>1 DEF ArgsOf
<1>6. QED
  BY <1>1, <1>2, <1>4, <1>5

(* A call is its arguments, last one first, and what is behind them.       *)
LEMMA TextOfType ==
  ASSUME NEW d \in Built, NEW c \in CallsOf(d)
  PROVE  /\ TextOf(d, c) \in Bytes
         /\ \A s \in Bytes :
              c = "transfer_tokens" =>
                TextOf(d, c) \o s =
                  Arguments(ArgsOf(d, c)) \o (LoadText(MethodOf(d, c)) \o (<<EXTCALL, 0>> \o s))
         /\ \A s \in Bytes :
              c # "transfer_tokens" =>
                TextOf(d, c) \o s =
                  Arguments(ArgsOf(d, c))
                    \o (LoadText(MethodOf(d, c))
                          \o FromPush(LoadText(NameOf(d, c))
                                        \o (<<CTX, 0, 1>> \o (<<SWITCH, 1>> \o s))))
<1> DEFINE a == Arguments(ArgsOf(d, c))
           m == LoadText(MethodOf(d, c))
           p == LoadPush(MethodOf(d, c))
           n == LoadText(NameOf(d, c))
           x == <<EXTCALL, 0>>
           cs == <<CTX, 0, 1, SWITCH, 1>>
           ct == <<CTX, 0, 1>>
           sw == <<SWITCH, 1>>
<1>1. /\ a \in Bytes /\ m \in Bytes /\ p \in Bytes /\ n \in Bytes
      /\ x \in Bytes /\ ct \in Bytes /\ sw \in Bytes
  <2>1. ArgsOf(d, c) \in ArgLists /\ MethodOf(d, c) \in Texts /\ NameOf(d, c) \in Texts
    BY Described
  <2>2. Len(ArgsOf(d, c)) \in 0 .. Len(ArgsOf(d, c))
    BY <2>1, ArgTypes
  <2>3. a \in Bytes
    BY <2>1, <2>2, PushedType DEF Arguments
  <2>4. QED
    BY <2>1, <2>3, LoadTextType, LoadPushType, OpcodeTexts
<1>2. ASSUME NEW s \in Bytes PROVE p \o s = m \o FromPush(s)
  BY Described, LoadPushType
<1>3. cs = ct \o sw
  BY DEF CTX, SWITCH
<1>4. /\ c = "transfer_tokens" => TextOf(d, c) = (a \o m) \o x
      /\ c # "transfer_tokens" => TextOf(d, c) = ((a \o p) \o n) \o (ct \o sw)
  BY <1>3 DEF TextOf, CallInterop, CallContract
<1> HIDE DEF a, m, p, n, x, cs, ct, sw
<1>5. /\ a \o m \in Bytes /\ a \o p \in Bytes
      /\ (a \o p) \o n \in Bytes /\ ct \o sw \in Bytes
      /\ (a \o m) \o x \in Bytes /\ ((a \o p) \o n) \o (ct \o sw) \in Bytes
  BY <1>1, BytesConcat
<1>6. ASSUME NEW s \in Bytes
      PROVE  /\ ((a \o m) \o x) \o s = a \o (m \o (x \o s))
             /\ (((a \o p) \o n) \o (ct \o sw)) \o s
                  = a \o (m \o FromPush(n \o (ct \o (sw \o s))))
  <2>1. /\ x \o s \in Bytes /\ sw \o s \in Bytes /\ ct \o (sw \o s) \in Bytes
        /\ n \o (ct \o (sw \o s)) \in Bytes
    BY <1>1, BytesConcat
  <2>2. ((a \o m) \o x) \o s = a \o (m \o (x \o s))
    <3>1. Assoc4(a, m, x, s)
      BY <1>1, BytesAssoc4
    <3>2. QED
      BY <3>1 DEF Assoc4
  <2>3. (((a \o p) \o n) \o (ct \o sw)) \o s = a \o (p \o (n \o (ct \o (sw \o s))))
    <3>1. Assoc6(a, p, n, ct, sw, s)
      BY <1>1, BytesAssoc6
    <3>2. QED
      BY <3>1 DEF Assoc6
  <2>4. p \o (n \o (ct \o (sw \o s))) = m \o FromPush(n \o (ct \o (sw \o s)))
    BY <1>2, <2>1
  <2>5. QED
    BY <2>2, <2>3, <2>4
<1>7. TextOf(d, c) \in Bytes
  BY <1>4, <1>5
<1>8. QED
  BY <1>4, <1>6, <1>7 DEF a, m, n, x, ct, sw

(* What is left of the script, from any of its instructions on, is bytes.  *)
LEMMA FromTypes ==
  ASSUME NEW d \in Built, NEW c \in CallsOf(d)
  PROVE  /\ After(d, c) \in Bytes /\ FromCall(d, c) \in Bytes
         /\ FromSwitch(d, c) \in Bytes /\ FromCtx(d, c) \in Bytes
         /\ FromName(d, c) \in Bytes /\ FromExtcall(d, c) \in Bytes
         /\ FromPush(FromName(d, c)) \in Bytes /\ FromMethod(d, c) \in Bytes
         /\ \A k \in 0 .. Len(ArgsOf(d, c)) :
              FromArgs(d, c, k) \in Bytes /\ FromPush(FromArgs(d, c, k)) \in Bytes
<1>1. /\ TextOf(d, c) \in Bytes /\ TextOf(d, "spend_gas") \in Bytes
      /\ TextOf(d, Main(d)) \in Bytes
  BY TextOfType DEF CallsOf
<1>2. After(d, c) \in Bytes
  <2>1. <<RET>> \in Bytes
    BY OpcodeTexts
  <2>2. TextOf(d, "spend_gas") \o <<RET>> \in Bytes
    BY <1>1, <2>1, BytesConcat
  <2>3. TextOf(d, Main(d)) \o (TextOf(d, "spend_gas") \o <<RET>>) \in Bytes
    BY <1>1, <2>2, BytesConcat
  <2>4. QED
    BY <2>1, <2>2, <2>3 DEF After
<1>3. /\ ArgsOf(d, c) \in ArgLists
      /\ LoadText(MethodOf(d, c)) \in Bytes /\ LoadText(NameOf(d, c)) \in Bytes
  BY Described, LoadTextType
<1>4. FromCall(d, c) \in Bytes
  BY <1>1, <1>2, BytesConcat DEF FromCall
<1>5. FromSwitch(d, c) \in Bytes /\ FromExtcall(d, c) \in Bytes
  BY <1>2, OpcodeTexts, BytesConcat DEF FromSwitch, FromExtcall
<1>6. FromCtx(d, c) \in Bytes
  BY <1>5, OpcodeTexts, BytesConcat DEF FromCtx
<1>7. FromName(d, c) \in Bytes
  BY <1>3, <1>6, BytesConcat DEF FromName
<1>8. FromPush(FromName(d, c)) \in Bytes
  BY <1>7, PushTextType
<1>9. FromMethod(d, c) \in Bytes
  <2>1. CASE c = "transfer_tokens"
    BY <1>3, <1>5, <2>1, BytesConcat DEF FromMethod
  <2>2. CASE c # "transfer_tokens"
    BY <1>3, <1>8, <2>2, BytesConcat DEF FromMethod
  <2>3. QED
    BY <2>1, <2>2
<1>10. ASSUME NEW k \in 0 .. Len(ArgsOf(d, c))
       PROVE  FromArgs(d, c, k) \in Bytes /\ FromPush(FromArgs(d, c, k)) \in Bytes
  <2>1. Pushed(ArgsOf(d, c))[k] \in Bytes
    BY <1>3, PushedType
  <2>2. FromArgs(d, c, k) \in Bytes
    BY <1>9, <2>1, BytesConcat DEF FromArgs
  <2>3. QED
    BY <2>2, PushTextType
<1>11. QED
  BY <1>2, <1>4, <1>5, <1>6, <1>7, <1>8, <1>9, <1>10

(* A call of the script is read argument by argument.                      *)
LEMMA FromArgsUnfolds ==
  ASSUME NEW d \in Built, NEW c \in CallsOf(d)
  PROVE  /\ FromCall(d, c) = FromArgs(d, c, Len(ArgsOf(d, c)))
         /\ FromArgs(d, c, 0) = FromMethod(d, c)
         /\ \A k \in 1 .. Len(ArgsOf(d, c)) :
              FromArgs(d, c, k) = LoadText(ArgsOf(d, c)[k]) \o FromPush(FromArgs(d, c, k - 1))
<1>1. /\ ArgsOf(d, c) \in ArgLists /\ Len(ArgsOf(d, c)) \in Nat
      /\ After(d, c) \in Bytes /\ FromMethod(d, c) \in Bytes
  BY Described, ArgTypes, FromTypes
<1>2. FromCall(d, c) = FromArgs(d, c, Len(ArgsOf(d, c)))
  <2>1. CASE c = "transfer_tokens"
    <3>1. FromCall(d, c) =
            Arguments(ArgsOf(d, c)) \o (LoadText(MethodOf(d, c)) \o (<<EXTCALL, 0>> \o After(d, c)))
      BY <1>1, <2>1, TextOfType DEF FromCall
    <3>2. QED
      BY <2>1, <3>1 DEF FromArgs, FromMethod, FromExtcall, Arguments
  <2>2. CASE c # "transfer_tokens"
    <3>1. FromCall(d, c) =
            Arguments(ArgsOf(d, c))
              \o (LoadText(MethodOf(d, c))
                    \o FromPush(LoadText(NameOf(d, c))
                                  \o (<<CTX, 0, 1>> \o (<<SWITCH, 1>> \o After(d, c)))))
      BY <1>1, <2>2, TextOfType DEF FromCall
    <3>2. QED
      BY <2>2, <3>1 DEF FromArgs, FromMethod, FromName, FromCtx, FromSwitch, Arguments
  <2>3. QED
    BY <2>1, <2>2
<1>3. FromArgs(d, c, 0) = FromMethod(d, c)
  <2>1. Pushed(ArgsOf(d, c))[0] = <<>>
    BY <1>1, PushedUnfolds
  <2>2. QED
    BY <1>1, <2>1, BytesEmpty DEF FromArgs
<1>4. ASSUME NEW k \in 1 .. Len(ArgsOf(d, c))
      PROVE  FromArgs(d, c, k) = LoadText(ArgsOf(d, c)[k]) \o FromPush(FromArgs(d, c, k - 1))
  <2> DEFINE t == ArgsOf(d, c)[k]
             q == Pushed(ArgsOf(d, c))[k - 1]
             m == FromMethod(d, c)
  <2>1. Pushed(ArgsOf(d, c))[k] = LoadPush(t) \o q
    BY <1>1, PushedUnfolds
  <2>2. t \in Texts
    BY <1>1, ArgTypes
  <2>3. q \in Bytes
    <3>1. k - 1 \in 0 .. Len(ArgsOf(d, c))
      BY <1>1
    <3>2. QED
      BY <1>1, <3>1, PushedType
  <2> HIDE DEF t, q, m
  <2>4. LoadPush(t) \in Bytes
    BY <2>2, LoadPushType
  <2>5. (LoadPush(t) \o q) \o m = LoadPush(t) \o (q \o m)
    <3>1. Assoc3(LoadPush(t), q, m)
      BY <1>1, <2>3, <2>4, BytesAssoc3 DEF m
    <3>2. QED
      BY <3>1 DEF Assoc3
  <2>6. q \o m \in Bytes
    BY <1>1, <2>3, BytesConcat DEF m
  <2>7. LoadPush(t) \o (q \o m) = LoadText(t) \o FromPush(q \o m)
    BY <2>2, <2>6, LoadPushType
  <2>8. FromArgs(d, c, k) = (LoadPush(t) \o q) \o m
    BY <2>1 DEF FromArgs, m
  <2>9. FromArgs(d, c, k - 1) = q \o m
    BY DEF FromArgs, q, m
  <2>10. QED
    BY <2>5, <2>7, <2>8, <2>9 DEF t
<1>5. QED
  BY <1>2, <1>3, <1>4

(* The script is its calls, one after the other.                           *)
LEMMA ScriptUnfolds ==
  ASSUME NEW d \in Built
  PROVE  /\ Script(d) = FromCall(d, "allow_gas")
         /\ After(d, "allow_gas") = FromCall(d, Main(d))
         /\ After(d, Main(d)) = FromCall(d, "spend_gas")
         /\ After(d, "spend_gas") = <<RET>>
<1> DEFINE a == TextOf(d, "allow_gas")
           m == TextOf(d, Main(d))
           s == TextOf(d, "spend_gas")
           r == <<RET>>
<1>1. a \in Bytes /\ m \in Bytes /\ s \in Bytes /\ r \in Bytes
  BY TextOfType, OpcodeTexts DEF CallsOf
<1>2. /\ After(d, "allow_gas") = m \o (s \o r)
      /\ After(d, Main(d)) = s \o r
      /\ After(d, "spend_gas") = r
  BY DEF After, Main
<1>3. Script(d) = ((a \o m) \o s) \o r
  <2>1. CASE d.type = "TRANSFER"
    BY <2>1 DEF Script, TextOf, Main, ArgsOf, MethodOf, NameOf
  <2>2. CASE d.type # "TRANSFER"
    BY <2>2 DEF Script, TextOf, Main, ArgsOf, MethodOf, NameOf
  <2>3. QED
    BY <2>1, <2>2
<1>4. FromCall(d, "allow_gas") = a \o (m \o (s \o r))
  BY <1>2 DEF FromCall
<1>5. FromCall(d, Main(d)) = m \o (s \o r) /\ FromCall(d, "spend_gas") = s \o r
  BY <1>2 DEF FromCall
<1> HIDE DEF a, m, s, r
<1>6. ((a \o m) \o s) \o r = a \o (m \o (s \o r))
  <2>1. Assoc4(a, m, s, r)
    BY <1>1, BytesAssoc4
  <2>2. QED
    BY <2>1 DEF Assoc4
<1>7. QED
  BY <1>2, <1>3, <1>4, <1>5, <1>6 DEF r

-----------------------------------------------------------------------------
(* What is read where the script is s.                                     *)
At(o, s)  == Left(raw, tx.script, o, s)
Got(f, t) == Says(raw, f, t)

ScriptInside == raw \in Bytes /\ tx.script \in Slice /\ EndOf(tx.script) <= Len(raw)

LEMMA InvScriptInside == Inv => ScriptInside /\ Size \in Nat /\ soff \in Nat /\ scan.off \in Nat
<1> SUFFICES ASSUME Inv PROVE ScriptInside /\ Size \in Nat /\ soff \in Nat /\ scan.off \in Nat
  OBVIOUS
<1>1. raw \in Bytes /\ tx \in TxType /\ soff \in Nat /\ scan.off \in Nat
  BY DEF Inv, TypeInv, Bytes
<1>2. tx.script \in Slice
  BY <1>1 DEF TxType
<1>3. EndOf(tx.script) <= Len(raw)
  BY DEF Inv, CursorInv, OffsetsInside, EndOf
<1>4. QED
  BY <1>1, <1>2, <1>3 DEF ScriptInside, Size, Slice

LEMMA AtSplit ==
  ASSUME ScriptInside, NEW o \in Nat, NEW s \in Bytes, NEW r \in Bytes, At(o, s \o r)
  PROVE  /\ o + Len(s) \in Nat /\ o + Len(s) <= Size /\ At(o + Len(s), r)
         /\ Stands(tx.script.at + o, s)
         /\ \A i \in 1 .. Len(s) : Op(o + i - 1) = s[i]
<1> DEFINE b == tx.script.at
<1>1. b \in Nat /\ Size \in Nat /\ b + o \in Nat /\ raw \in Bytes
  BY DEF ScriptInside, Slice, Size
<1>2. Len(s) \in Nat /\ Len(r) \in Nat /\ Len(s \o r) = Len(s) + Len(r)
  BY BytesConcat, LenProperties DEF Bytes
<1>3. Stands(b + o, s) /\ Stands((b + o) + Len(s), r) /\ o + (Len(s) + Len(r)) = Size
  <2>1. Stands(b + o, s \o r)
    BY DEF At, Left, Holds, Stands
  <2>2. o + Len(s \o r) = Size
    BY DEF At, Left, Size
  <2>3. QED
    BY <1>1, <1>2, <2>1, <2>2, StandsConcat
<1>4. (b + o) + Len(s) = b + (o + Len(s)) /\ o + Len(s) \in Nat /\ o + Len(s) <= Size
      /\ (o + Len(s)) + Len(r) = Size
  BY <1>1, <1>2, <1>3
<1>5. At(o + Len(s), r)
  BY <1>3, <1>4 DEF At, Left, Holds, Stands, Size
<1>6. ASSUME NEW i \in 1 .. Len(s)
      PROVE  Op(o + i - 1) = s[i]
  <2>1. Byte((b + o) + i - 1) = s[i]
    BY <1>1, <1>3, StandsByte
  <2>2. (b + o) + i - 1 = b + (o + i - 1)
    BY <1>1, <1>2
  <2>3. QED
    BY <2>1, <2>2 DEF Op
<1>7. QED
  BY <1>3, <1>4, <1>5, <1>6

(* The last n + 1 bytes of an instruction that is its opcode and n more.   *)
LEMMA AtOpcode ==
  ASSUME ScriptInside, NEW o \in Nat, NEW s \in Bytes, NEW r \in Bytes, At(o, s \o r),
         NEW n \in Nat, Len(s) = n + 1
  PROVE  /\ o < Size /\ o + 1 + n <= Size /\ Op(o) = s[1]
         /\ o + 1 + n \in Nat /\ At(o + 1 + n, r)
<1>1. /\ o + (n + 1) <= Size /\ At(o + (n + 1), r)
      /\ \A i \in 1 .. Len(s) : Op(o + i - 1) = s[i]
  BY AtSplit
<1>2. 1 \in 1 .. Len(s) /\ o + 1 - 1 = o /\ o + (n + 1) = o + 1 + n /\ Size \in Nat
  BY DEF ScriptInside, Slice, Size
<1>3. QED
  BY <1>1, <1>2

LEMMA AtPush ==
  ASSUME ScriptInside, NEW o \in Nat, NEW r \in Bytes, At(o, FromPush(r))
  PROVE  o < Size /\ o + 2 <= Size /\ Op(o) = PUSH /\ o + 2 \in Nat /\ At(o + 2, r)
<1>1. <<PUSH, 0>> \in Bytes /\ Len(<<PUSH, 0>>) = 1 + 1 /\ <<PUSH, 0>>[1] = PUSH
  BY OpcodeTexts
<1>2. /\ o < Size /\ o + 1 + 1 <= Size /\ Op(o) = <<PUSH, 0>>[1]
      /\ o + 1 + 1 \in Nat /\ At(o + 1 + 1, r)
  BY <1>1, AtOpcode DEF FromPush
<1>3. o + 1 + 1 = o + 2
  OBVIOUS
<1>4. QED
  BY <1>1, <1>2, <1>3

(* read_load finds the text, and the seek leads behind it.                 *)
LEMMA AtLoad ==
  ASSUME ScriptInside, NEW o \in Nat, NEW t \in Texts, NEW r \in Bytes,
         At(o, LoadText(t) \o r)
  PROVE  /\ o < Size /\ o + 4 <= Size /\ Op(o) = LOAD
         /\ Behind(o + 4, Op(o + 3)) = o + 4 + Len(t)
         /\ o + 4 + Len(t) \in Nat /\ At(o + 4 + Len(t), r)
         /\ LET f == [at |-> tx.script.at + o + 4, len |-> Op(o + 3)]
            IN  f \in Slice /\ Got(f, t)
<1> DEFINE h == <<LOAD, 0, 4, Len(t)>>
           p == h[4]
           f == [at |-> tx.script.at + o + 4, len |-> Op(o + 3)]
<1>1. /\ h \in Bytes /\ Len(h) = 4 /\ LoadText(t) = h \o t
      /\ t \in Bytes /\ Len(t) \in Nat
      /\ h[1] = LOAD /\ p = Len(t)
  BY LoadTextType, TextTypes DEF LoadText
<1> HIDE DEF h
<1>2. t \o r \in Bytes /\ Assoc3(h, t, r)
  BY <1>1, BytesConcat, BytesAssoc3
<1>3. At(o, h \o (t \o r))
  BY <1>1, <1>2 DEF Assoc3
<1>4. /\ o + 4 \in Nat /\ o + 4 <= Size /\ At(o + 4, t \o r)
      /\ \A i \in 1 .. 4 : Op(o + i - 1) = h[i]
  <2>1. /\ o + Len(h) \in Nat /\ o + Len(h) <= Size /\ At(o + Len(h), t \o r)
        /\ \A i \in 1 .. Len(h) : Op(o + i - 1) = h[i]
    BY <1>1, <1>2, <1>3, AtSplit
  <2>2. Len(h) = 4
    BY <1>1
  <2>3. QED
    BY <2>1, <2>2
<1>5. /\ (o + 4) + Len(t) \in Nat /\ (o + 4) + Len(t) <= Size
      /\ At((o + 4) + Len(t), r) /\ Stands(tx.script.at + (o + 4), t)
  BY <1>1, <1>4, AtSplit
<1>6. Op(o) = LOAD /\ Op(o + 3) = Len(t)
  <2>1. 1 \in 1 .. 4 /\ 4 \in 1 .. 4 /\ o + 1 - 1 = o /\ o + 4 - 1 = o + 3
    OBVIOUS
  <2>2. Op(o + 1 - 1) = h[1] /\ Op(o + 4 - 1) = h[4]
    BY <1>4, <2>1, Zenon
  <2>3. QED
    BY <1>1, <2>1, <2>2
<1>7. o < Size
  BY <1>4 DEF ScriptInside, Slice, Size
<1>8. tx.script.at \in Nat /\ tx.script.at + (o + 4) = tx.script.at + o + 4
      /\ tx.script.at + o + 4 \in Nat
  BY DEF ScriptInside, Slice
<1>9. f \in Slice /\ f.at = tx.script.at + (o + 4) /\ f.len = Len(t)
  BY <1>1, <1>6, <1>8 DEF Slice
<1> HIDE DEF f
<1>10. Got(f, t)
  BY <1>5, <1>9 DEF Got, Says, Holds, Stands
<1>11. Behind(o + 4, Op(o + 3)) = o + 4 + Len(t)
  BY <1>5, <1>6 DEF Behind
<1>12. QED
  BY <1>4, <1>5, <1>6, <1>7, <1>9, <1>10, <1>11 DEF f

-----------------------------------------------------------------------------
(* The header of a transaction a wallet may describe.                      *)
LEMMA HeadedTextType ==
  ASSUME NEW t \in Bytes, Len(t) <= MAX_TRANSACTION_LEN
  PROVE  /\ Len(t) \in Nat /\ VarintWrite(Len(t)) \in Bytes
         /\ Len(VarintWrite(Len(t))) \in Nat
         /\ LengthAndText(t) \in Bytes
         /\ \A r \in Bytes : Assoc3(VarintWrite(Len(t)), t, r)
<1>1. Len(t) \in Nat
  BY LenProperties DEF Bytes
<1>2. VarintWrite(Len(t)) \in Bytes
  BY <1>1, VarintWriteType
<1>3. Len(VarintWrite(Len(t))) \in Nat
  BY <1>2, LenProperties DEF Bytes
<1>4. VarintWrite(Len(t)) \o t \in Bytes
  BY <1>2, BytesConcat
<1>5. \A r \in Bytes : Assoc3(VarintWrite(Len(t)), t, r)
  BY <1>2, BytesAssoc3
<1>6. QED
  BY <1>1, <1>2, <1>3, <1>4, <1>5 DEF LengthAndText

LEMMA FieldLimits ==
  /\ NEXUS_LEN \in Nat /\ NEXUS_LEN <= MAX_TRANSACTION_LEN
  /\ CHAIN_LEN \in Nat /\ CHAIN_LEN <= MAX_TRANSACTION_LEN
  /\ SCRIPT_LEN \in Nat /\ SCRIPT_LEN <= MAX_TRANSACTION_LEN
  /\ PAYLOAD_LEN \in Nat /\ PAYLOAD_LEN <= MAX_TRANSACTION_LEN
BY DEF NEXUS_LEN, CHAIN_LEN, SCRIPT_LEN, PAYLOAD_LEN, MAX_TRANSACTION_LEN

LEMMA WireTypes ==
  ASSUME NEW d \in Built
  PROVE  /\ d.nexus \in Bytes /\ Len(d.nexus) \in 1 .. NEXUS_LEN
         /\ d.chain \in Bytes /\ Len(d.chain) \in 1 .. CHAIN_LEN
         /\ Script(d) \in Bytes /\ Len(Script(d)) \in 1 .. SCRIPT_LEN
         /\ d.expiration \in Bytes /\ Len(d.expiration) = 4
         /\ d.payload \in Bytes /\ Len(d.payload) \in 1 .. PAYLOAD_LEN
<1>1. d \in Descriptions /\ Len(Script(d)) <= SCRIPT_LEN
  BY BuiltAssumption
<1>2. /\ d.nexus \in Fields(NEXUS_LEN) /\ d.chain \in Fields(CHAIN_LEN)
      /\ d.payload \in Fields(PAYLOAD_LEN) /\ d.expiration \in [1 .. 4 -> 0 .. 255]
  BY <1>1 DEF Descriptions
<1>3. d.expiration \in Bytes /\ Len(d.expiration) = 4
  BY <1>2, FourBytes
<1>4. Script(d) \in Bytes /\ Len(Script(d)) \in 1 .. SCRIPT_LEN
  <2>1. "allow_gas" \in CallsOf(d)
    BY DEF CallsOf
  <2>2. Script(d) \in Bytes /\ Script(d) = FromArgs(d, "allow_gas", 4)
    BY <2>1, ScriptUnfolds, FromArgsUnfolds, FromTypes, Described
  <2>3. /\ ArgsOf(d, "allow_gas") \in ArgLists /\ Len(ArgsOf(d, "allow_gas")) = 4
        /\ 4 \in 1 .. Len(ArgsOf(d, "allow_gas")) /\ 4 - 1 = 3
        /\ 3 \in 0 .. Len(ArgsOf(d, "allow_gas"))
    BY <2>1, Described
  <2> DEFINE t == ArgsOf(d, "allow_gas")[4]
             r == FromPush(FromArgs(d, "allow_gas", 3))
  <2>4. Script(d) = LoadText(t) \o r
    BY <2>1, <2>2, <2>3, FromArgsUnfolds
  <2>5. t \in Texts /\ r \in Bytes
    BY <2>1, <2>3, ArgTypes, FromTypes
  <2> HIDE DEF t, r
  <2>6. LoadText(t) \in Bytes /\ Len(LoadText(t)) = 4 + Len(t) /\ Len(t) \in Nat
    BY <2>5, LoadTextType, TextTypes
  <2>7. Len(Script(d)) = Len(LoadText(t)) + Len(r) /\ Len(r) \in Nat
    <3>1. Len(Script(d)) = Len(LoadText(t)) + Len(r)
      BY <2>4, <2>5, <2>6, BytesConcat
    <3>2. Len(r) \in Nat
      BY <2>5, LenProperties DEF Bytes
    <3>3. QED
      BY <3>1, <3>2
  <2>8. Len(Script(d)) \in Nat /\ Len(Script(d)) >= 1
    BY <2>6, <2>7
  <2>9. QED
    BY <1>1, <2>2, <2>8, FieldLimits
<1>5. QED
  BY <1>2, <1>3, <1>4 DEF Fields

(* A transaction is its fields, one after the other.                       *)
LEMMA BuildUnfolds ==
  ASSUME NEW d \in Built
  PROVE  /\ FromNexus(d) \in Bytes /\ FromChain(d) \in Bytes /\ FromScript(d) \in Bytes
         /\ FromExpiration(d) \in Bytes /\ FromPayload(d) \in Bytes
         /\ Build(d) = FromNexus(d)
<1> DEFINE n == LengthAndText(d.nexus)
           c == LengthAndText(d.chain)
           s == LengthAndText(Script(d))
           e == d.expiration
           p == LengthAndText(d.payload)
<1>1. n \in Bytes /\ c \in Bytes /\ s \in Bytes /\ e \in Bytes /\ p \in Bytes
  <2>1. /\ Len(d.nexus) <= MAX_TRANSACTION_LEN /\ Len(d.chain) <= MAX_TRANSACTION_LEN
        /\ Len(Script(d)) <= MAX_TRANSACTION_LEN /\ Len(d.payload) <= MAX_TRANSACTION_LEN
    BY WireTypes, FieldLimits DEF MAX_TRANSACTION_LEN
  <2>2. QED
    BY <2>1, WireTypes, HeadedTextType
<1>2. Build(d) = (((n \o c) \o s) \o e) \o p
  BY DEF Build, Serialize
<1>3. /\ FromPayload(d) = p /\ FromExpiration(d) = e \o p
      /\ FromScript(d) = s \o (e \o p) /\ FromChain(d) = c \o (s \o (e \o p))
      /\ FromNexus(d) = n \o (c \o (s \o (e \o p)))
  BY DEF FromPayload, FromExpiration, FromScript, FromChain, FromNexus
<1> HIDE DEF n, c, s, e, p
<1>4. e \o p \in Bytes
  BY <1>1, BytesConcat
<1>5. s \o (e \o p) \in Bytes
  BY <1>1, <1>4, BytesConcat
<1>6. c \o (s \o (e \o p)) \in Bytes
  BY <1>1, <1>5, BytesConcat
<1>7. n \o (c \o (s \o (e \o p))) \in Bytes /\ n \o c \in Bytes
  BY <1>1, <1>6, BytesConcat
<1>8. Assoc4(n \o c, s, e, p) /\ Assoc3(n, c, s \o (e \o p))
  BY <1>1, <1>5, <1>7, BytesAssoc3, BytesAssoc4
<1>9. QED
  BY <1>1, <1>2, <1>3, <1>4, <1>5, <1>6, <1>7, <1>8 DEF Assoc3, Assoc4

(* A field stands where it stands with more behind it.                     *)
LEMMA HoldsHead ==
  ASSUME raw \in Bytes, off \in Nat, NEW t \in Bytes, NEW max \in Nat,
         max <= MAX_TRANSACTION_LEN, Len(t) \in 1 .. max,
         NEW r \in Bytes, Holds(raw, off, LengthAndText(t) \o r)
  PROVE  Holds(raw, off, LengthAndText(t))
<1>1. Len(t) <= MAX_TRANSACTION_LEN
  BY DEF MAX_TRANSACTION_LEN
<1>2. LengthAndText(t) \in Bytes
  BY <1>1, HeadedTextType
<1>3. Stands(off, LengthAndText(t) \o r)
  BY DEF Holds, Stands
<1>4. Stands(off, LengthAndText(t))
  BY <1>2, <1>3, StandsConcat
<1>5. QED
  BY <1>4 DEF Holds, Stands

(* A field that stands behind its length is read.                          *)
LEMMA FieldReads ==
  ASSUME Inv, NEW name, NEW max \in Nat, max <= MAX_TRANSACTION_LEN,
         NEW zero, NEW overflow, NEW parsing, NEW next,
         Field(name, max, zero, overflow, parsing, next),
         NEW t \in Bytes, Len(t) \in 1 .. max, Holds(raw, off, LengthAndText(t))
  PROVE  /\ pc' = next /\ UNCHANGED status
         /\ \E f \in Slice : /\ tx' = [tx EXCEPT ![name] = f]
                             /\ Says(raw, f, t) /\ off' = EndOf(f)
         /\ \A r \in Bytes : Holds(raw, off, LengthAndText(t) \o r) => Holds(raw, off', r)
         /\ UNCHANGED <<raw, scriptVars, joined>>
<1> DEFINE w == VarintWrite(Len(t))
           length == Varint(off)
           end == length.next + length.value
           f == [at |-> length.next, len |-> length.value]
<1>1. raw \in Bytes /\ off \in Nat /\ Len(raw) \in Nat
  BY LenProperties DEF Inv, TypeInv, Bytes
<1>2. /\ Len(t) \in Nat /\ Len(t) <= MAX_TRANSACTION_LEN /\ w \in Bytes /\ Len(w) \in Nat
      /\ LengthAndText(t) = w \o t /\ LengthAndText(t) \in Bytes
      /\ \A r \in Bytes : Assoc3(w, t, r)
  <2>1. Len(t) <= MAX_TRANSACTION_LEN
    BY DEF MAX_TRANSACTION_LEN
  <2>2. QED
    BY <2>1, HeadedTextType DEF LengthAndText
<1>3. Stands(off, w) /\ Stands(off + Len(w), t)
  <2>1. Stands(off, w \o t)
    BY <1>2 DEF Holds, Stands
  <2>2. QED
    BY <1>1, <1>2, <2>1, StandsConcat
<1>4. length.value = Len(t) /\ length.next = off + Len(w)
  BY <1>1, <1>2, <1>3, VarintReadsBack
<1> HIDE DEF length, w
<1>5. f \in Slice /\ f.at = off + Len(w) /\ f.len = Len(t) /\ end = EndOf(f)
  BY <1>1, <1>2, <1>4 DEF Slice, EndOf
<1>6. Says(raw, f, t)
  BY <1>3, <1>5 DEF Says, Holds, Stands
<1>7. length.value \in 1 .. max /\ end <= Len(raw)
  BY <1>1, <1>2, <1>3, <1>4 DEF Stands
<1>8. /\ pc' = next /\ UNCHANGED status /\ off' = end /\ tx' = [tx EXCEPT ![name] = f]
      /\ UNCHANGED <<raw, scriptVars, joined>>
  <2>1. length.value # 0 /\ ~(length.value > max) /\ ~(end > Len(raw))
    BY <1>1, <1>2, <1>4, <1>7
  <2>2. QED
    BY <2>1 DEF Field, length
<1> HIDE DEF f, end
<1>9. ASSUME NEW r \in Bytes, Holds(raw, off, LengthAndText(t) \o r)
      PROVE  Holds(raw, off', r)
  <2>1. t \o r \in Bytes /\ Stands(off, w \o (t \o r))
    BY <1>2, <1>9, BytesConcat DEF Holds, Stands, Assoc3
  <2>2. Stands(off + Len(w), t \o r)
    BY <1>1, <1>2, <2>1, StandsConcat
  <2>3. Stands((off + Len(w)) + Len(t), r)
    <3>1. off + Len(w) \in Nat
      BY <1>1, <1>2
    <3>2. QED
      BY <1>1, <2>2, <3>1, StandsConcat
  <2>4. off' = (off + Len(w)) + Len(t)
    BY <1>5, <1>8 DEF EndOf
  <2>5. QED
    BY <2>3, <2>4 DEF Holds, Stands
<1>10. QED
  BY <1>5, <1>6, <1>8, <1>9

-----------------------------------------------------------------------------
(* The steps that read the header.                                         *)
LEMMA StartBuilt ==
  ASSUME Init, NEW d \in Built, raw = Build(d)
  PROVE  BuiltFor(d)
<1>1. /\ pc = "start" /\ off = 0 /\ call = "allow_gas" /\ ~pushing /\ scan.args = 0
      /\ ignored = {} /\ joined = <<>>
  BY DEF Init
<1>2. HeaderBuilt(d) /\ CallsBuilt(d)
  BY <1>1 DEF HeaderBuilt, CallsBuilt, CallsOf, ScriptPc
<1>3. ReadingBuilt(d) /\ ScanBuilt(d) /\ FieldsBuilt(d)
  BY <1>1 DEF ReadingBuilt, ScanBuilt, FieldsBuilt
<1>4. QED
  BY <1>1, <1>2, <1>3 DEF BuiltFor

LEMMA LengthBuilt ==
  ASSUME Inv, NEW d \in Built, raw = Build(d), BuiltFor(d), CheckLength
  PROVE  BuiltFor(d)'
<1>1. pc = "start" /\ UNCHANGED <<raw, off, tx, scriptVars, joined>>
  BY DEF CheckLength
<1>2. Len(raw) <= MAX_TRANSACTION_LEN /\ raw # <<>>
  <2>1. Len(raw) <= MAX_TRANSACTION_LEN
    BY BuiltAssumption
  <2>2. raw # <<>>
    <3> DEFINE n == LengthAndText(d.nexus)
    <3>1. /\ d.nexus \in Bytes /\ Len(d.nexus) \in 1 .. NEXUS_LEN
          /\ Len(d.nexus) <= MAX_TRANSACTION_LEN
      <4>1. \A m \in 1 .. NEXUS_LEN : m <= MAX_TRANSACTION_LEN
        BY DEF NEXUS_LEN, MAX_TRANSACTION_LEN
      <4>2. d.nexus \in Bytes /\ Len(d.nexus) \in 1 .. NEXUS_LEN
        BY WireTypes
      <4>3. QED
        BY <4>1, <4>2
    <3>2. /\ VarintWrite(Len(d.nexus)) \in Bytes /\ n \in Bytes
          /\ Len(VarintWrite(Len(d.nexus))) \in Nat
          /\ n = VarintWrite(Len(d.nexus)) \o d.nexus
      BY <3>1, HeadedTextType DEF LengthAndText
    <3>3. Len(n) = Len(VarintWrite(Len(d.nexus))) + Len(d.nexus)
      BY <3>1, <3>2, BytesConcat
    <3>4. raw = n \o FromChain(d) /\ FromChain(d) \in Bytes
      BY BuildUnfolds DEF FromNexus
    <3> HIDE DEF n
    <3>5. Len(n) # 0
      <4>1. \A a \in Nat, m \in 1 .. NEXUS_LEN : a + m # 0
        BY DEF NEXUS_LEN
      <4>2. QED
        BY <3>1, <3>2, <3>3, <4>1
    <3>6. Len(raw) = Len(n) + Len(FromChain(d)) /\ Len(n) \in Nat /\ Len(FromChain(d)) \in Nat
      <4>1. Len(raw) = Len(n) + Len(FromChain(d))
        BY <3>2, <3>4, BytesConcat
      <4>2. Len(n) \in Nat /\ Len(FromChain(d)) \in Nat
        BY <3>2, <3>4, LenProperties DEF Bytes
      <4>3. QED
        BY <4>1, <4>2
    <3>7. Len(raw) # 0
      BY <3>5, <3>6
    <3>8. QED
      BY <3>7, Bytes0
  <2>3. QED
    BY <2>1, <2>2
<1>3. pc' = "nexus"
  <2>1. ~(Len(raw) > MAX_TRANSACTION_LEN)
    BY <1>2, LenProperties DEF Inv, TypeInv, MAX_TRANSACTION_LEN
  <2>2. QED
    BY <1>2, <2>1 DEF CheckLength
<1>4. /\ off = 0 /\ ignored = {} /\ call = "allow_gas" /\ ~pushing /\ scan.args = 0
      /\ joined = <<>>
  BY <1>1 DEF BuiltFor, HeaderBuilt, CallsBuilt, FieldsBuilt
<1>5. /\ off' = 0 /\ ignored' = {} /\ call' = "allow_gas" /\ ~pushing' /\ scan'.args = 0
      /\ joined' = <<>>
  BY <1>1, <1>4 DEF scriptVars
<1>6. HeaderBuilt(d)' /\ CallsBuilt(d)'
  BY <1>3, <1>5 DEF HeaderBuilt, CallsBuilt, CallsOf, ScriptPc
<1>7. ReadingBuilt(d)' /\ ScanBuilt(d)' /\ FieldsBuilt(d)'
  BY <1>3, <1>5 DEF ReadingBuilt, ScanBuilt, FieldsBuilt
<1>8. QED
  BY <1>3, <1>5, <1>6, <1>7 DEF BuiltFor

(* The rest of the invariant, at the steps that read nexus and chain.      *)
LEMMA BeforeScript ==
  ASSUME NEW d \in Built, BuiltFor(d), pc \in {"start", "nexus", "chain"},
         pc' \in {"nexus", "chain", "script"}, UNCHANGED <<scriptVars, joined>>
  PROVE  /\ pc' # "overrun" /\ ignored' = {}
         /\ CallsBuilt(d)' /\ ReadingBuilt(d)' /\ ScanBuilt(d)' /\ FieldsBuilt(d)'
<1>1. /\ ignored = {} /\ call = "allow_gas" /\ ~pushing /\ scan.args = 0
      /\ joined = <<>>
  BY DEF BuiltFor, CallsBuilt, FieldsBuilt
<1>2. /\ ignored' = {} /\ call' = "allow_gas" /\ ~pushing' /\ scan'.args = 0
      /\ joined' = <<>>
  BY <1>1 DEF scriptVars
<1>3. CallsBuilt(d)'
  BY <1>2 DEF CallsBuilt, CallsOf
<1>4. ReadingBuilt(d)' /\ ScanBuilt(d)' /\ FieldsBuilt(d)'
  BY <1>2 DEF ReadingBuilt, ScanBuilt, FieldsBuilt
<1>5. QED
  BY <1>2, <1>3, <1>4

LEMMA NexusBuilt ==
  ASSUME Inv, NEW d \in Built, raw = Build(d), BuiltFor(d), ReadNexus
  PROVE  BuiltFor(d)'
<1>1. pc = "nexus" /\ off = 0 /\ tx \in TxType
  BY DEF ReadNexus, Field, BuiltFor, HeaderBuilt, Inv, TypeInv
<1>2. /\ FromChain(d) \in Bytes /\ raw = LengthAndText(d.nexus) \o FromChain(d)
      /\ FromNexus(d) \in Bytes
  BY BuildUnfolds DEF FromNexus
<1>3. /\ Holds(raw, off, LengthAndText(d.nexus) \o FromChain(d))
      /\ Holds(raw, off, LengthAndText(d.nexus))
  <2>1. raw \in Bytes /\ off \in Nat /\ Len(raw) \in Nat
    BY LenProperties DEF Inv, TypeInv, Bytes
  <2>2. Holds(raw, off, LengthAndText(d.nexus) \o FromChain(d))
    <3>1. Holds(raw, 0, raw)
      BY <2>1 DEF Holds
    <3>2. QED
      BY <1>1, <1>2, <3>1
  <2>3. QED
    BY <1>2, <2>1, <2>2, HoldsHead, WireTypes, FieldLimits
<1>4. PICK f \in Slice : /\ tx' = [tx EXCEPT !["nexus"] = f]
                         /\ Says(raw, f, d.nexus)
                         /\ pc' = "chain" /\ UNCHANGED <<raw, scriptVars, joined>>
                         /\ Holds(raw, off', FromChain(d))
  <2>1. Field("nexus", NEXUS_LEN, "NEXUS_ZERO_ERROR",
              "NEXUS_OVERFLOW_ERROR", "NEXUS_PARSING_ERROR", "chain")
    BY DEF ReadNexus
  <2>2. QED
    BY <1>2, <1>3, <2>1, FieldReads, WireTypes, FieldLimits
<1>5. tx'.nexus = f
  BY <1>1, <1>4 DEF TxType
<1>6. HeaderBuilt(d)'
  BY <1>4, <1>5 DEF HeaderBuilt, ScriptPc
<1>7. QED
  BY <1>1, <1>4, <1>6, BeforeScript DEF BuiltFor

LEMMA ChainBuilt ==
  ASSUME Inv, NEW d \in Built, raw = Build(d), BuiltFor(d), ReadChain
  PROVE  BuiltFor(d)'
<1>1. /\ pc = "chain" /\ tx \in TxType
      /\ Says(raw, tx.nexus, d.nexus) /\ Holds(raw, off, FromChain(d))
  BY DEF ReadChain, Field, BuiltFor, HeaderBuilt, Inv, TypeInv
<1>2. FromScript(d) \in Bytes /\ FromChain(d) = LengthAndText(d.chain) \o FromScript(d)
  BY BuildUnfolds DEF FromChain
<1>3. Holds(raw, off, LengthAndText(d.chain))
  <2>1. raw \in Bytes /\ off \in Nat
    BY DEF Inv, TypeInv, Bytes
  <2>2. QED
    BY <1>1, <1>2, <2>1, HoldsHead, WireTypes, FieldLimits
<1>4. PICK f \in Slice : /\ tx' = [tx EXCEPT !["chain"] = f]
                         /\ Says(raw, f, d.chain)
                         /\ pc' = "script" /\ UNCHANGED <<raw, scriptVars, joined>>
                         /\ Holds(raw, off', FromScript(d))
  <2>1. Field("chain", CHAIN_LEN, "CHAIN_ZERO_ERROR",
              "CHAIN_OVERFLOW_ERROR", "CHAIN_PARSING_ERROR", "script")
    BY DEF ReadChain
  <2>2. Holds(raw, off, LengthAndText(d.chain) \o FromScript(d))
    BY <1>1, <1>2
  <2>3. d.chain \in Bytes /\ Len(d.chain) \in 1 .. CHAIN_LEN
    BY WireTypes
  <2>4. FromScript(d) \in Bytes
    BY <1>2
  <2>5. QED
    BY <1>3, <2>1, <2>2, <2>3, <2>4, FieldReads, FieldLimits
<1>5. tx'.chain = f /\ tx'.nexus = tx.nexus
  BY <1>1, <1>4 DEF TxType
<1>6. HeaderBuilt(d)'
  BY <1>1, <1>4, <1>5 DEF HeaderBuilt, ScriptPc
<1>7. QED
  BY <1>1, <1>4, <1>6, BeforeScript DEF BuiltFor

(* The script was read: its first call is about to be counted.             *)
LEMMA ScriptBuilt ==
  ASSUME Inv, NEW d \in Built, raw = Build(d), BuiltFor(d), ReadScript
  PROVE  BuiltFor(d)'
<1>1. /\ pc = "script" /\ tx \in TxType
      /\ Says(raw, tx.nexus, d.nexus) /\ Says(raw, tx.chain, d.chain)
      /\ Holds(raw, off, FromScript(d))
      /\ soff = 0 /\ scan.off = 0 /\ scan.args = 0
      /\ call = "allow_gas" /\ ~pushing /\ ignored = {} /\ joined = <<>>
  BY DEF ReadScript, Field, BuiltFor, HeaderBuilt, CallsBuilt, FieldsBuilt, Inv, TypeInv,
         CursorInv
<1>2. /\ FromExpiration(d) \in Bytes
      /\ FromScript(d) = LengthAndText(Script(d)) \o FromExpiration(d)
  BY BuildUnfolds DEF FromScript
<1>3. Script(d) \in Bytes /\ Len(Script(d)) \in 1 .. SCRIPT_LEN
  BY WireTypes
<1>4. Holds(raw, off, LengthAndText(Script(d)))
  <2>1. raw \in Bytes /\ off \in Nat
    BY DEF Inv, TypeInv, Bytes
  <2>2. QED
    BY <1>1, <1>2, <1>3, <2>1, HoldsHead, FieldLimits
<1>5. PICK f \in Slice : /\ tx' = [tx EXCEPT !["script"] = f]
                         /\ Says(raw, f, Script(d))
                         /\ pc' = "count" /\ UNCHANGED <<raw, scriptVars, joined>>
                         /\ Holds(raw, off', FromExpiration(d))
  <2>1. Field("script", SCRIPT_LEN, "SCRIPT_ZERO_ERROR",
              "SCRIPT_OVERFLOW_ERROR", "SCRIPT_PARSING_ERROR", "count")
    BY DEF ReadScript
  <2>2. Holds(raw, off, LengthAndText(Script(d)) \o FromExpiration(d))
    BY <1>1, <1>2
  <2>3. FromExpiration(d) \in Bytes
    BY <1>2
  <2>4. QED
    BY <1>3, <1>4, <2>1, <2>2, <2>3, FieldReads, FieldLimits
<1>6. tx'.script = f /\ tx'.chain = tx.chain /\ tx'.nexus = tx.nexus
  BY <1>1, <1>5 DEF TxType
<1>7. HeaderBuilt(d)'
  BY <1>1, <1>5, <1>6 DEF HeaderBuilt, ScriptPc
<1>8. /\ ignored' = {} /\ call' = "allow_gas" /\ ~pushing' /\ joined' = <<>>
      /\ scan'.off = 0 /\ scan'.args = 0 /\ soff' = 0
  BY <1>1, <1>5 DEF scriptVars
<1>9. Left(raw, f, 0, FromCall(d, "allow_gas"))
  <2>1. f.at \in Nat /\ f.at + 0 = f.at /\ f.len \in Nat
    BY DEF Slice
  <2>2. Script(d) = FromCall(d, "allow_gas")
    BY ScriptUnfolds
  <2>3. 0 + Len(Script(d)) = f.len /\ Holds(raw, f.at, Script(d))
    BY <1>5, <2>1 DEF Says
  <2>4. QED
    BY <2>1, <2>2, <2>3 DEF Left
<1>10. ScanAt(raw, f, 0, 0, d, "allow_gas")
  <2>1. "allow_gas" \in CallsOf(d) /\ Len(ArgsOf(d, "allow_gas")) = 4
    BY Described DEF CallsOf
  <2>2. 4 \in 0 .. Len(ArgsOf(d, "allow_gas")) /\ Len(ArgsOf(d, "allow_gas")) - 4 = 0
    BY <2>1
  <2>3. Left(raw, f, 0, FromArgs(d, "allow_gas", 4))
    BY <1>9, <2>1, FromArgsUnfolds
  <2>4. QED
    BY <2>2, <2>3 DEF ScanAt
<1>11. CallsBuilt(d)' /\ FieldsBuilt(d)'
  BY <1>5, <1>8 DEF CallsBuilt, CallsOf, FieldsBuilt
<1>12. ReadingBuilt(d)'
  BY <1>5, <1>6, <1>8, <1>9 DEF ReadingBuilt
<1>13. ScanBuilt(d)'
  BY <1>5, <1>6, <1>8, <1>10 DEF ScanBuilt
<1>14. QED
  BY <1>5, <1>7, <1>8, <1>11, <1>12, <1>13 DEF BuiltFor

LEMMA ExpirationBuilt ==
  ASSUME Inv, NEW d \in Built, raw = Build(d), BuiltFor(d), ReadExpiration
  PROVE  BuiltFor(d)'
<1>1. /\ pc = "expiration" /\ pc' = "payload" /\ tx \in TxType
      /\ UNCHANGED <<raw, call, calls, pushing, joined>>
      /\ Says(raw, tx.nexus, d.nexus) /\ Says(raw, tx.chain, d.chain)
      /\ Says(raw, tx.script, Script(d)) /\ Holds(raw, off, FromExpiration(d))
      /\ call = "spend_gas" /\ ignored = {} /\ joined = <<>>
  BY DEF ReadExpiration, BuiltFor, HeaderBuilt, CallsBuilt, FieldsBuilt, Inv, TypeInv
<1>2. raw \in Bytes /\ off \in Nat /\ Len(raw) \in Nat
  BY LenProperties DEF Inv, TypeInv, Bytes
<1>3. /\ d.expiration \in Bytes /\ Len(d.expiration) = 4 /\ FromPayload(d) \in Bytes
  BY WireTypes, BuildUnfolds
<1>4. off + 4 <= Len(raw) /\ Holds(raw, off + 4, FromPayload(d))
  <2>1. Stands(off, d.expiration \o FromPayload(d))
    BY <1>1 DEF FromExpiration, Holds, Stands
  <2>2. Stands(off, d.expiration) /\ Stands(off + Len(d.expiration), FromPayload(d))
    BY <1>2, <1>3, <2>1, StandsConcat
  <2>3. QED
    BY <1>3, <2>2 DEF Holds, Stands
<1>5. /\ off' = off + 4 /\ ignored' = {}
      /\ tx' = [tx EXCEPT !.expiration = SubSeq(raw, off + 1, off + 4)]
  BY <1>1, <1>4 DEF ReadExpiration
<1>6. tx'.nexus = tx.nexus /\ tx'.chain = tx.chain /\ tx'.script = tx.script
      /\ tx'.type = tx.type
  BY <1>1, <1>5 DEF TxType
<1>7. HeaderBuilt(d)'
  BY <1>1, <1>4, <1>5, <1>6 DEF HeaderBuilt, ScriptPc
<1>8. CallsBuilt(d)'
  <2>1. CallsBuilt(d)
    BY DEF BuiltFor
  <2>2. QED
    BY <1>1, <1>6, <2>1 DEF CallsBuilt
<1>9. ReadingBuilt(d)' /\ ScanBuilt(d)' /\ FieldsBuilt(d)'
  BY <1>1 DEF ReadingBuilt, ScanBuilt, FieldsBuilt
<1>10. QED
  BY <1>1, <1>5, <1>7, <1>8, <1>9 DEF BuiltFor

LEMMA PayloadBuilt ==
  ASSUME Inv, NEW d \in Built, raw = Build(d), BuiltFor(d), ReadPayload
  PROVE  BuiltFor(d)'
<1>1. /\ pc = "payload" /\ tx \in TxType
      /\ Says(raw, tx.nexus, d.nexus) /\ Says(raw, tx.chain, d.chain)
      /\ Says(raw, tx.script, Script(d)) /\ Holds(raw, off, LengthAndText(d.payload))
      /\ call = "spend_gas" /\ ignored = {} /\ joined = <<>>
  BY DEF ReadPayload, Field, BuiltFor, HeaderBuilt, CallsBuilt, FieldsBuilt, Inv, TypeInv,
         FromPayload
<1>2. PICK f \in Slice : /\ tx' = [tx EXCEPT !["payload"] = f]
                         /\ Says(raw, f, d.payload)
                         /\ pc' = "fields" /\ UNCHANGED <<raw, scriptVars, joined>>
  <2>1. Field("payload", PAYLOAD_LEN, "PAYLOAD_ZERO_ERROR",
              "PAYLOAD_OVERFLOW_ERROR", "PAYLOAD_PARSING_ERROR", "fields")
    BY DEF ReadPayload
  <2>2. d.payload \in Bytes /\ Len(d.payload) \in 1 .. PAYLOAD_LEN
    BY WireTypes
  <2>3. QED
    BY <1>1, <2>1, <2>2, FieldReads, FieldLimits
<1>3. /\ tx'.payload = f /\ tx'.nexus = tx.nexus /\ tx'.chain = tx.chain
      /\ tx'.script = tx.script /\ tx'.type = tx.type
  BY <1>1, <1>2 DEF TxType
<1>4. UNCHANGED <<call, calls, pushing, ignored>>
  BY <1>2 DEF scriptVars
<1>5. HeaderBuilt(d)'
  BY <1>1, <1>2, <1>3 DEF HeaderBuilt, ScriptPc
<1>6. CallsBuilt(d)'
  <2>1. CallsBuilt(d)
    BY DEF BuiltFor
  <2>2. QED
    BY <1>1, <1>2, <1>3, <1>4, <2>1 DEF CallsBuilt
<1>7. ReadingBuilt(d)' /\ ScanBuilt(d)' /\ FieldsBuilt(d)'
  BY <1>1, <1>2 DEF ReadingBuilt, ScanBuilt, FieldsBuilt
<1>8. QED
  BY <1>1, <1>2, <1>4, <1>5, <1>6, <1>7 DEF BuiltFor

-----------------------------------------------------------------------------
(* The steps that read the script: what they leave alone.                  *)
LEMMA HeaderLeft ==
  ASSUME NEW d \in Built, BuiltFor(d), pc \in ScriptPc, pc' \in ScriptPc \cup {"expiration"},
         UNCHANGED <<raw, off, joined>>, tx'.nexus = tx.nexus, tx'.chain = tx.chain,
         tx'.script = tx.script
  PROVE  HeaderBuilt(d)' /\ FieldsBuilt(d)'
<1>1. /\ Says(raw, tx.nexus, d.nexus) /\ Says(raw, tx.chain, d.chain)
      /\ Says(raw, tx.script, Script(d)) /\ Holds(raw, off, FromExpiration(d))
      /\ joined = <<>>
  BY DEF BuiltFor, HeaderBuilt, FieldsBuilt, ScriptPc
<1>2. HeaderBuilt(d)'
  BY <1>1 DEF HeaderBuilt, ScriptPc
<1>3. FieldsBuilt(d)'
  BY <1>1 DEF FieldsBuilt, ScriptPc
<1>4. QED
  BY <1>2, <1>3

LEMMA CallsLeft ==
  ASSUME NEW d \in Built, BuiltFor(d), pc \in ScriptPc \ {"interop"},
         pc' \in ScriptPc \ {"interop"}, raw' = raw, tx'.type = tx.type, call' = call,
         \A c \in Calls : c # call => calls'[c] = calls[c]
  PROVE  CallsBuilt(d)'
<1>1. CallsBuilt(d)
  BY DEF BuiltFor
<1>2. call # "allow_gas" => calls'["allow_gas"] = calls["allow_gas"]
  BY DEF Calls
<1>3. call = "spend_gas" => calls'[Main(d)] = calls[Main(d)]
  BY DEF Calls, Main
<1>4. QED
  BY <1>1, <1>2, <1>3 DEF CallsBuilt, ScriptPc

(* What the invariant says where the script is read.                       *)
LEMMA ScriptFacts ==
  ASSUME Inv, NEW d \in Built, BuiltFor(d), pc \in ScriptPc
  PROVE  /\ ScriptInside /\ Size \in Nat /\ soff \in Nat /\ scan.off \in Nat
         /\ tx \in TxType /\ call \in CallsOf(d) /\ call \in Calls /\ ignored = {}
         /\ calls \in [Calls -> CallType] /\ ix \in Int
         /\ ArgsOf(d, call) \in ArgLists /\ Len(ArgsOf(d, call)) \in 0 .. 4
<1>1. call \in CallsOf(d) /\ ignored = {}
  BY DEF BuiltFor, CallsBuilt
<1>2. ArgsOf(d, call) \in ArgLists
  BY <1>1, Described
<1>3. Len(ArgsOf(d, call)) \in 0 .. 4
  <2>1. Len(ArgsOf(d, call)) \in Nat /\ Len(ArgsOf(d, call)) <= MAX_ARGS_LEN
    BY <1>2, ArgTypes
  <2>2. \A m \in Nat : m <= MAX_ARGS_LEN => m \in 0 .. 4
    BY DEF MAX_ARGS_LEN
  <2>3. QED
    BY <2>1, <2>2
<1>4. tx \in TxType /\ calls \in [Calls -> CallType] /\ ix \in Int /\ call \in Calls
  BY DEF Inv, TypeInv
<1>5. QED
  BY <1>1, <1>2, <1>3, <1>4, InvScriptInside

(* An instruction that is there does not fail.                             *)
LEMMA ReadsNotFails ==
  ASSUME NEW opcode, NEW n \in Nat, NEW wrong, soff \in Nat, Size \in Nat,
         soff < Size, soff + 1 + n <= Size, Op(soff) = opcode
  PROVE  Reads(opcode, n) /\ ~Fails(opcode, n, wrong)
BY DEF Reads, Fails

(* The look-ahead starts at the start of a call.                           *)
LEMMA ScanStarts ==
  ASSUME NEW d \in Built, NEW c \in CallsOf(d), NEW r, NEW f, NEW o,
         Left(r, f, o, FromCall(d, c))
  PROVE  ScanAt(r, f, o, 0, d, c)
<1> DEFINE n == Len(ArgsOf(d, c))
<1>1. n \in 0 .. n /\ n - n = 0
  BY Described, ArgTypes
<1>2. Left(r, f, o, FromArgs(d, c, n))
  BY FromArgsUnfolds
<1>3. QED
  BY <1>1, <1>2 DEF ScanAt

(* A call that was read to its end.                                        *)
LEMMA EndBuilt ==
  ASSUME Inv, NEW d \in Built, BuiltFor(d), pc \in {"switch", "extcall", "end"},
         NEW o, EndCall("PARSING_OK", o), UNCHANGED <<raw, status, off, tx, calls, ix, joined>>,
         pc # "end" => /\ SaysCall(raw, calls[call], d, call)
                       /\ Left(raw, tx.script, o, After(d, call)),
         pc = "end" => call = "spend_gas"
  PROVE  BuiltFor(d)'
<1>1. /\ call \in CallsOf(d) /\ ignored = {} /\ CallsBuilt(d) /\ tx \in TxType
      /\ d.type \in {"TRANSFER", "CUSTOM"} /\ pc \in ScriptPc
  BY Described DEF BuiltFor, CallsBuilt, Inv, TypeInv, ScriptPc
<1>2. /\ soff' = o /\ pushing' = FALSE /\ scan' = [off |-> o, args |-> 0] /\ ignored' = {}
      /\ call' = IF call \in {"transfer_tokens", "contract_call"} THEN "spend_gas" ELSE call
      /\ pc' = CASE pc = "end" -> "expiration"
                 [] pc # "end" /\ call = "allow_gas" -> "interop"
                 [] pc # "end" /\ call = "transfer_tokens" -> "count"
                 [] pc # "end" /\ call = "contract_call" ->
                      IF "PARSING_OK" = "PARSING_OK" THEN "count" ELSE "expiration"
                 [] pc # "end" /\ call = "spend_gas" -> "end"
  BY <1>1 DEF EndCall
<1>3. scan'.off = o /\ scan'.args = 0
  BY <1>2
<1>4. CASE pc = "end"
  <2>1. pc' = "expiration" /\ call' = "spend_gas" /\ call = "spend_gas"
    BY <1>2, <1>4, Zenon
  <2>2. HeaderBuilt(d)' /\ FieldsBuilt(d)'
    BY <1>1, <2>1, HeaderLeft
  <2>3. CallsBuilt(d)'
    BY <1>1, <2>1 DEF CallsBuilt
  <2>4. ReadingBuilt(d)' /\ ScanBuilt(d)'
    BY <2>1 DEF ReadingBuilt, ScanBuilt
  <2>5. QED
    BY <1>2, <2>1, <2>2, <2>3, <2>4 DEF BuiltFor
<1>5. CASE pc # "end" /\ call = "allow_gas"
  <2>1. pc' = "interop" /\ call' = "allow_gas"
    <3>1. pc' = "interop"
      BY <1>2, <1>5, Zenon
    <3>2. QED
      BY <1>2, <1>5, <3>1
  <2>2. HeaderBuilt(d)' /\ FieldsBuilt(d)'
    BY <1>1, <2>1, HeaderLeft DEF ScriptPc
  <2>3. CallsBuilt(d)'
    BY <1>5, <2>1 DEF CallsBuilt, CallsOf
  <2>4. Left(raw, tx.script, o, FromCall(d, Main(d)))
    BY <1>5, ScriptUnfolds
  <2>5. ScanAt(raw, tx.script, o, 0, d, Main(d))
    BY <2>4, ScanStarts DEF CallsOf
  <2>6. ReadingBuilt(d)' /\ ScanBuilt(d)'
    BY <1>2, <1>3, <2>1, <2>4, <2>5 DEF ReadingBuilt, ScanBuilt
  <2>7. QED
    BY <1>2, <2>1, <2>2, <2>3, <2>6 DEF BuiltFor
<1>6. CASE pc # "end" /\ call \in {"transfer_tokens", "contract_call"}
  <2>1. pc' = "count" /\ call' = "spend_gas"
    <3>1. pc' = "count"
      <4>1. CASE call = "transfer_tokens"
        BY <1>2, <1>6, <4>1, Zenon
      <4>2. CASE call = "contract_call"
        BY <1>2, <1>6, <4>2, Zenon
      <4>3. QED
        BY <1>6, <4>1, <4>2
    <3>2. QED
      BY <1>2, <1>6, <3>1
  <2>2. call = Main(d)
    BY <1>1, <1>6 DEF CallsOf
  <2>3. HeaderBuilt(d)' /\ FieldsBuilt(d)'
    BY <1>1, <2>1, HeaderLeft DEF ScriptPc
  <2>4. CallsBuilt(d)'
    <3>1. SaysCall(raw, calls["allow_gas"], d, "allow_gas") /\ tx.type = d.type
      BY <1>1, <1>6 DEF CallsBuilt
    <3>2. SaysCall(raw, calls[Main(d)], d, Main(d))
      BY <1>6, <2>2
    <3>3. QED
      BY <2>1, <3>1, <3>2 DEF CallsBuilt, CallsOf
  <2>5. Left(raw, tx.script, o, FromCall(d, "spend_gas"))
    BY <1>6, <2>2, ScriptUnfolds
  <2>6. ScanAt(raw, tx.script, o, 0, d, "spend_gas")
    BY <2>5, ScanStarts DEF CallsOf
  <2>7. ReadingBuilt(d)' /\ ScanBuilt(d)'
    BY <1>2, <1>3, <2>1, <2>5, <2>6 DEF ReadingBuilt, ScanBuilt
  <2>8. QED
    BY <1>2, <2>1, <2>3, <2>4, <2>7 DEF BuiltFor
<1>7. CASE pc # "end" /\ call = "spend_gas"
  <2>1. pc' = "end" /\ call' = "spend_gas"
    <3>1. pc' = "end"
      BY <1>2, <1>7, Zenon
    <3>2. QED
      BY <1>2, <1>7, <3>1
  <2>2. HeaderBuilt(d)' /\ FieldsBuilt(d)'
    BY <1>1, <2>1, HeaderLeft DEF ScriptPc
  <2>3. CallsBuilt(d)'
    BY <1>1, <1>7, <2>1, CallsLeft DEF ScriptPc, CallsBuilt, CallsOf
  <2>4. Left(raw, tx.script, o, <<RET>>)
    BY <1>7, ScriptUnfolds
  <2>5. ReadingBuilt(d)' /\ ScanBuilt(d)'
    BY <1>2, <2>1, <2>4 DEF ReadingBuilt, ScanBuilt
  <2>6. QED
    BY <1>2, <2>1, <2>2, <2>3, <2>5 DEF BuiltFor
<1>8. QED
  BY <1>1, <1>4, <1>5, <1>6, <1>7 DEF CallsOf, Main

-----------------------------------------------------------------------------
(* The steps that read the instructions of a call.                         *)
LEMMA ReadCtxBuilt ==
  ASSUME Inv, NEW d \in Built, BuiltFor(d), ReadCtx
  PROVE  BuiltFor(d)'
<1>1. /\ pc = "ctx" /\ pc \in ScriptPc \ {"interop"} /\ ReadingBuilt(d)
      /\ UNCHANGED <<raw, status, off, tx, joined>>
  BY DEF ReadCtx, ScriptPc, BuiltFor
<1>2. /\ ScriptInside /\ Size \in Nat /\ soff \in Nat /\ call \in CallsOf(d)
      /\ ignored = {}
  BY <1>1, ScriptFacts
<1>3. Left(raw, tx.script, soff, FromCtx(d, call))
  BY <1>1 DEF ReadingBuilt
<1>4. /\ soff < Size /\ soff + 1 + 2 <= Size /\ Op(soff) = CTX
      /\ Left(raw, tx.script, soff + 3, FromSwitch(d, call))
  <2>1. At(soff, <<CTX, 0, 1>> \o FromSwitch(d, call))
    BY <1>3 DEF At, FromCtx
  <2>2. /\ <<CTX, 0, 1>> \in Bytes /\ Len(<<CTX, 0, 1>>) = 2 + 1 /\ <<CTX, 0, 1>>[1] = CTX
        /\ FromSwitch(d, call) \in Bytes
    BY <1>2, OpcodeTexts, FromTypes
  <2>3. /\ soff < Size /\ soff + 1 + 2 <= Size /\ Op(soff) = <<CTX, 0, 1>>[1]
        /\ At(soff + 1 + 2, FromSwitch(d, call))
    BY <1>2, <2>1, <2>2, AtOpcode
  <2>4. soff + 1 + 2 = soff + 3
    BY <1>2
  <2>5. QED
    BY <2>2, <2>3, <2>4 DEF At
<1>5. /\ soff' = soff + 3 /\ pc' = "switch"
      /\ UNCHANGED <<call, calls, ix, pushing, scan, ignored>>
  BY <1>2, <1>4, ReadsNotFails DEF ReadCtx
<1>6. HeaderBuilt(d)' /\ FieldsBuilt(d)' /\ CallsBuilt(d)'
  BY <1>1, <1>5, HeaderLeft, CallsLeft DEF ScriptPc
<1>7. ReadingBuilt(d)' /\ ScanBuilt(d)'
  BY <1>1, <1>4, <1>5 DEF ReadingBuilt, ScanBuilt
<1>8. QED
  BY <1>2, <1>5, <1>6, <1>7 DEF BuiltFor

LEMMA ReadLastBuilt ==
  ASSUME Inv, NEW d \in Built, BuiltFor(d), ReadSwitch \/ ReadExtcall \/ ReadEnd
  PROVE  BuiltFor(d)'
<1>1. /\ pc \in {"switch", "extcall", "end"} /\ pc \in ScriptPc /\ ReadingBuilt(d)
      /\ UNCHANGED <<raw, status, off, tx, joined>>
  BY DEF ReadSwitch, ReadExtcall, ReadEnd, ReadLast, ScriptPc, BuiltFor
<1>2. /\ ScriptInside /\ Size \in Nat /\ soff \in Nat /\ call \in CallsOf(d)
      /\ ignored = {}
  BY <1>1, ScriptFacts
<1>3. ASSUME NEW opcode, NEW wrong, NEW r, NEW n \in Nat, NEW s \in Bytes, Len(s) = n + 1,
             s[1] = opcode, r \in Bytes, At(soff, s \o r), ReadLast(opcode, n, wrong)
      PROVE  /\ EndCall("PARSING_OK", soff + 1 + n) /\ UNCHANGED <<calls, ix>>
             /\ Left(raw, tx.script, soff + 1 + n, r)
  <2>1. /\ soff < Size /\ soff + 1 + n <= Size /\ Op(soff) = opcode
        /\ At(soff + 1 + n, r)
    BY <1>2, <1>3, AtOpcode
  <2>2. QED
    BY <1>2, <1>3, <2>1, ReadsNotFails DEF ReadLast, At
<1>4. CASE ReadSwitch
  <2>1. /\ pc = "switch" /\ ReadLast(SWITCH, 1, "SCRIPT_PARSING_ERROR_OPCODE_SWITCH46")
    BY <1>4 DEF ReadSwitch
  <2>2. /\ <<SWITCH, 1>> \in Bytes /\ Len(<<SWITCH, 1>>) = 1 + 1 /\ <<SWITCH, 1>>[1] = SWITCH
        /\ After(d, call) \in Bytes
    BY <1>2, OpcodeTexts, FromTypes
  <2>3. At(soff, <<SWITCH, 1>> \o After(d, call))
    BY <1>1, <2>1 DEF ReadingBuilt, At, FromSwitch
  <2>4. /\ EndCall("PARSING_OK", soff + 1 + 1) /\ UNCHANGED <<calls, ix>>
        /\ Left(raw, tx.script, soff + 1 + 1, After(d, call))
    BY <1>3, <2>1, <2>2, <2>3
  <2>5. SaysCall(raw, calls[call], d, call)
    BY <1>1, <2>1 DEF ReadingBuilt, SaysCall
  <2>6. QED
    BY <1>1, <2>1, <2>4, <2>5, EndBuilt
<1>5. CASE ReadExtcall
  <2>1. /\ pc = "extcall" /\ ReadLast(EXTCALL, 1, "SCRIPT_PARSING_ERROR_OPCODE_EXTCALL7")
    BY <1>5 DEF ReadExtcall
  <2>2. /\ <<EXTCALL, 0>> \in Bytes /\ Len(<<EXTCALL, 0>>) = 1 + 1
        /\ <<EXTCALL, 0>>[1] = EXTCALL /\ After(d, call) \in Bytes
    BY <1>2, OpcodeTexts, FromTypes
  <2>3. At(soff, <<EXTCALL, 0>> \o After(d, call))
    BY <1>1, <2>1 DEF ReadingBuilt, At, FromExtcall
  <2>4. /\ EndCall("PARSING_OK", soff + 1 + 1) /\ UNCHANGED <<calls, ix>>
        /\ Left(raw, tx.script, soff + 1 + 1, After(d, call))
    BY <1>3, <2>1, <2>2, <2>3
  <2>5. SaysCall(raw, calls[call], d, call)
    BY <1>1, <2>1 DEF ReadingBuilt, SaysCall
  <2>6. QED
    BY <1>1, <2>1, <2>4, <2>5, EndBuilt
<1>6. CASE ReadEnd
  <2>1. /\ pc = "end" /\ ReadLast(RET, 0, "SCRIPT_PARSING_ERROR_OPCODE_RET11")
    BY <1>6 DEF ReadEnd
  <2>2. /\ <<RET>> \in Bytes /\ Len(<<RET>>) = 0 + 1 /\ <<RET>>[1] = RET
        /\ <<>> \in Bytes /\ <<RET>> \o <<>> = <<RET>>
    BY OpcodeTexts, Bytes0, BytesEmpty
  <2>3. At(soff, <<RET>>) /\ call = "spend_gas"
    BY <1>1, <2>1 DEF ReadingBuilt, At
  <2>4. At(soff, <<RET>> \o <<>>)
    BY <2>2, <2>3
  <2>5. /\ EndCall("PARSING_OK", soff + 1 + 0) /\ UNCHANGED <<calls, ix>>
    BY <1>3, <2>1, <2>2, <2>4
  <2>6. QED
    BY <1>1, <2>1, <2>3, <2>5, EndBuilt
<1>7. QED
  BY <1>4, <1>5, <1>6

(* Where arguments are read, their index is a number.                      *)
LEMMA ArgIndex == Inv /\ pc = "args" => ix \in Nat
<1>1. \A i \in 0 .. 254 : i \in Nat
  OBVIOUS
<1>2. LoopInv /\ pc = "args" => ix \in 0 .. 254
  BY DEF LoopInv
<1>3. QED
  BY <1>1, <1>2, Zenon DEF Inv

LEMMA ReadPushBuilt ==
  ASSUME Inv, NEW d \in Built, BuiltFor(d), ReadPush
  PROVE  BuiltFor(d)'
<1> DEFINE n == Len(ArgsOf(d, call))
<1>1. /\ pushing /\ pc \in {"args", "method"} /\ pc \in ScriptPc \ {"interop"}
      /\ ReadingBuilt(d) /\ UNCHANGED <<raw, status, off, tx, joined>>
  BY DEF ReadPush, ScriptPc, BuiltFor, Inv, LoopInv
<1>2. /\ ScriptInside /\ Size \in Nat /\ soff \in Nat /\ call \in CallsOf(d)
      /\ ignored = {} /\ n \in 0 .. 4 /\ ix \in Int
  BY <1>1, ScriptFacts
<1>3. ASSUME NEW r \in Bytes, Left(raw, tx.script, soff, FromPush(r))
      PROVE  /\ Left(raw, tx.script, soff + 2, r)
             /\ ~Fails(PUSH, 1, "SCRIPT_PARSING_ERROR_OPCODE_PUSH2")
  <2>1. soff < Size /\ soff + 2 <= Size /\ Op(soff) = PUSH /\ At(soff + 2, r)
    BY <1>2, <1>3, AtPush DEF At
  <2>2. soff + 1 + 1 <= Size
    BY <1>2, <2>1
  <2>3. QED
    BY <1>2, <2>1, <2>2, ReadsNotFails DEF At
<1>4. CASE pc = "args"
  <2> DEFINE k == n - (ix + 1)
  <2>1. /\ ix < n /\ calls[call].args_len = n /\ SaysArgs(raw, calls[call], d, call, ix + 1)
        /\ Left(raw, tx.script, soff, FromPush(FromArgs(d, call, k)))
    BY <1>1, <1>4 DEF ReadingBuilt
  <2>2. ix \in Nat
    BY <1>4, ArgIndex
  <2>3. k \in 0 .. n /\ k \in 0 .. Len(ArgsOf(d, call))
    BY <1>2, <2>1, <2>2
  <2>4. FromArgs(d, call, k) \in Bytes
    BY <1>2, <2>3, FromTypes
  <2>5. /\ Left(raw, tx.script, soff + 2, FromArgs(d, call, k))
        /\ ~Fails(PUSH, 1, "SCRIPT_PARSING_ERROR_OPCODE_PUSH2")
    BY <1>3, <2>1, <2>4
  <2>6. /\ soff' = soff + 2 /\ pushing' = FALSE /\ ix' = ix + 1
        /\ pc' = IF ix + 1 < n THEN "args" ELSE "method"
        /\ UNCHANGED <<call, calls, scan, ignored>>
    BY <1>4, <2>1, <2>5 DEF ReadPush
  <2>7. HeaderBuilt(d)' /\ FieldsBuilt(d)' /\ CallsBuilt(d)'
    BY <1>1, <2>6, HeaderLeft, CallsLeft DEF ScriptPc
  <2>8. ReadingBuilt(d)' /\ ScanBuilt(d)'
    <3>1. CASE ix + 1 < n
      BY <1>1, <2>1, <2>5, <2>6, <3>1 DEF ReadingBuilt, ScanBuilt
    <3>2. CASE ~(ix + 1 < n)
      <4>1. ix + 1 = n /\ k = 0
        BY <1>2, <2>1, <3>2
      <4>2. Left(raw, tx.script, soff + 2, FromMethod(d, call))
        BY <1>2, <2>5, <4>1, FromArgsUnfolds
      <4>3. SaysArgs(raw, calls[call], d, call, n) /\ pc' = "method"
        BY <2>1, <2>6, <3>2, <4>1
      <4> HIDE DEF n, k
      <4>4. QED
        BY <1>1, <2>1, <2>6, <4>2, <4>3 DEF ReadingBuilt, ScanBuilt, n
    <3>3. QED
      BY <3>1, <3>2
  <2>9. QED
    BY <1>2, <2>6, <2>7, <2>8 DEF BuiltFor
<1>5. CASE pc = "method"
  <2>1. /\ call # "transfer_tokens" /\ calls[call].args_len = n
        /\ SaysArgs(raw, calls[call], d, call, n)
        /\ Says(raw, calls[call].method, MethodOf(d, call))
        /\ Left(raw, tx.script, soff, FromPush(FromName(d, call)))
    BY <1>1, <1>5 DEF ReadingBuilt
  <2>2. FromName(d, call) \in Bytes
    BY <1>2, FromTypes
  <2>3. /\ Left(raw, tx.script, soff + 2, FromName(d, call))
        /\ ~Fails(PUSH, 1, "SCRIPT_PARSING_ERROR_OPCODE_PUSH2")
    BY <1>3, <2>1, <2>2
  <2>4. /\ soff' = soff + 2 /\ pushing' = FALSE /\ pc' = "name"
        /\ UNCHANGED <<call, calls, ix, scan, ignored>>
    BY <1>5, <2>3 DEF ReadPush
  <2>5. HeaderBuilt(d)' /\ FieldsBuilt(d)' /\ CallsBuilt(d)'
    BY <1>1, <2>4, HeaderLeft, CallsLeft DEF ScriptPc
  <2>6. ReadingBuilt(d)' /\ ScanBuilt(d)'
    BY <1>1, <2>1, <2>3, <2>4 DEF ReadingBuilt, ScanBuilt
  <2>7. QED
    BY <1>2, <2>4, <2>5, <2>6 DEF BuiltFor
<1>6. QED
  BY <1>1, <1>4, <1>5

(* What storing an argument, or one of the other fields, does to the calls.*)
LEMMA ArgStored ==
  ASSUME calls \in [Calls -> CallType], call \in Calls, NEW i \in 0 .. MAX_ARGS_LEN - 1, NEW s,
         calls' = [calls EXCEPT ![call].args[i] = s]
  PROVE  /\ \A c \in Calls : c # call => calls'[c] = calls[c]
         /\ calls'[call].args[i] = s
         /\ \A j \in 0 .. MAX_ARGS_LEN - 1 : j # i => calls'[call].args[j] = calls[call].args[j]
         /\ calls'[call].args_len = calls[call].args_len
<1> DEFINE k == calls[call]
<1>1. k \in CallType /\ calls' = [calls EXCEPT ![call] = [k EXCEPT !.args[i] = s]]
  OBVIOUS
<1>2. calls'[call] = [k EXCEPT !.args[i] = s] /\ \A c \in Calls : c # call => calls'[c] = calls[c]
  BY <1>1
<1> HIDE DEF k
<1>3. /\ calls'[call].args = [k.args EXCEPT ![i] = s] /\ calls'[call].args_len = k.args_len
      /\ k.args \in [0 .. MAX_ARGS_LEN - 1 -> Slice]
  BY <1>1, <1>2 DEF CallType
<1>4. \A a \in [0 .. MAX_ARGS_LEN - 1 -> Slice], j \in 0 .. MAX_ARGS_LEN - 1 :
        [a EXCEPT ![i] = s][j] = IF j = i THEN s ELSE a[j]
  OBVIOUS
<1>5. \A j \in 0 .. MAX_ARGS_LEN - 1 :
        calls'[call].args[j] = IF j = i THEN s ELSE k.args[j]
  BY <1>3, <1>4, Zenon
<1>6. calls'[call].args[i] = s
  BY <1>5, Zenon
<1>7. \A j \in 0 .. MAX_ARGS_LEN - 1 : j # i => calls'[call].args[j] = k.args[j]
  BY <1>5, Zenon
<1>8. QED
  BY <1>2, <1>3, <1>6, <1>7 DEF k

LEMMA FieldStored ==
  ASSUME calls \in [Calls -> CallType], call \in Calls, NEW f \in {"method", "name"}, NEW s,
         calls' = [calls EXCEPT ![call][f] = s]
  PROVE  /\ \A c \in Calls : c # call => calls'[c] = calls[c]
         /\ calls'[call].args = calls[call].args
         /\ calls'[call].args_len = calls[call].args_len
         /\ f = "method" => calls'[call].method = s
         /\ f = "name" => calls'[call].name = s /\ calls'[call].method = calls[call].method
<1> DEFINE k == calls[call]
<1>1. k \in CallType /\ calls' = [calls EXCEPT ![call] = [k EXCEPT ![f] = s]]
  OBVIOUS
<1>2. calls'[call] = [k EXCEPT ![f] = s] /\ \A c \in Calls : c # call => calls'[c] = calls[c]
  BY <1>1
<1> HIDE DEF k
<1>3. CASE f = "method"
  BY <1>1, <1>2, <1>3 DEF CallType, k
<1>4. CASE f = "name"
  BY <1>1, <1>2, <1>4 DEF CallType, k
<1>5. QED
  BY <1>2, <1>3, <1>4

(* The LOAD of a text is read: the text is stored, and the cursor is       *)
(* behind it.                                                              *)
LEMMA LoadRead ==
  ASSUME Inv, NEW d \in Built, BuiltFor(d), ReadLoad, NEW t \in Texts, NEW r \in Bytes,
         Left(raw, tx.script, soff, LoadText(t) \o r)
  PROVE  \E s \in Slice :
           /\ Says(raw, s, t) /\ Left(raw, tx.script, soff', r)
           /\ \/ /\ pc = "args" /\ ix >= MAX_ARGS_LEN
              \/ /\ pc = "args" /\ ix < MAX_ARGS_LEN
                 /\ calls' = [calls EXCEPT ![call].args[ix] = s]
                 /\ pushing' = TRUE
                 /\ UNCHANGED <<pc, call, ix, scan, ignored>>
              \/ /\ pc # "args"
                 /\ calls' = [calls EXCEPT ![call][pc] = s]
                 /\ pushing' = (pc = "method" /\ call # "transfer_tokens")
                 /\ pc' = CASE pc = "name" -> "ctx"
                            [] pc = "method" -> IF pushing' THEN "method" ELSE "extcall"
                 /\ UNCHANGED <<call, ix, scan, ignored>>
<1>1. pc \in ScriptPc
  BY DEF ReadLoad, ScriptPc
<1>2. ScriptInside /\ Size \in Nat /\ soff \in Nat
  BY <1>1, ScriptFacts
<1> DEFINE s == [at |-> tx.script.at + soff + 4, len |-> Op(soff + 3)]
<1>3. /\ soff < Size /\ soff + 4 <= Size /\ Op(soff) = LOAD
      /\ Behind(soff + 4, Op(soff + 3)) = soff + 4 + Len(t)
      /\ At(soff + 4 + Len(t), r) /\ s \in Slice /\ Got(s, t)
  <2>1. At(soff, LoadText(t) \o r)
    BY DEF At
  <2>2. QED
    BY <1>2, <2>1, AtLoad
<1>4. soff + 1 + 3 <= Size /\ 3 \in Nat
  BY <1>2, <1>3
<1>5. ~Fails(LOAD, 3, "SCRIPT_PARSING_ERROR_OPCODE_LOAD13")
  BY <1>2, <1>3, <1>4, ReadsNotFails
<1>6. soff' = soff + 4 + Len(t)
  BY <1>3, <1>5 DEF ReadLoad
<1>7. Says(raw, s, t) /\ Left(raw, tx.script, soff', r)
  BY <1>3, <1>6 DEF At, Got
<1>8. \/ /\ pc = "args" /\ ix >= MAX_ARGS_LEN
      \/ /\ pc = "args" /\ ix < MAX_ARGS_LEN
         /\ calls' = [calls EXCEPT ![call].args[ix] = s]
         /\ pushing' = TRUE
         /\ UNCHANGED <<pc, call, ix, scan, ignored>>
      \/ /\ pc # "args"
         /\ calls' = [calls EXCEPT ![call][pc] = s]
         /\ pushing' = (pc = "method" /\ call # "transfer_tokens")
         /\ pc' = CASE pc = "name" -> "ctx"
                    [] pc = "method" -> IF pushing' THEN "method" ELSE "extcall"
         /\ UNCHANGED <<call, ix, scan, ignored>>
  BY <1>5, Zenon DEF ReadLoad
<1> HIDE DEF s
<1>9. s \in Slice
  BY <1>3 DEF s
<1>10. QED
  BY <1>7, <1>8, <1>9, Zenon

(* One more argument was read.                                             *)
LEMMA OneMoreArg ==
  ASSUME NEW d \in Built, NEW c \in CallsOf(d), NEW k, NEW l, NEW m \in 0 .. 3,
         SaysArgs(raw, k, d, c, m),
         \A j \in 0 .. 3 : j # m => l.args[j] = k.args[j],
         Says(raw, l.args[m], ArgsOf(d, c)[Len(ArgsOf(d, c)) - m])
  PROVE  SaysArgs(raw, l, d, c, m + 1)
<1> SUFFICES ASSUME NEW i \in 0 .. (m + 1) - 1
             PROVE  Says(raw, l.args[i], ArgsOf(d, c)[Len(ArgsOf(d, c)) - i])
  BY DEF SaysArgs
<1>1. CASE i = m
  BY <1>1
<1>2. CASE i # m
  <2>1. i \in 0 .. m - 1 /\ i \in 0 .. 3
    BY <1>2
  <2>2. l.args[i] = k.args[i]
    BY <1>2, <2>1
  <2>3. Says(raw, k.args[i], ArgsOf(d, c)[Len(ArgsOf(d, c)) - i])
    BY <2>1 DEF SaysArgs
  <2>4. QED
    BY <2>2, <2>3
<1>3. QED
  BY <1>1, <1>2

LEMMA ReadLoadBuilt ==
  ASSUME Inv, NEW d \in Built, BuiltFor(d), ReadLoad
  PROVE  BuiltFor(d)'
<1> DEFINE n == Len(ArgsOf(d, call))
<1>1. /\ ~pushing /\ pc \in {"args", "method", "name"} /\ pc \in ScriptPc \ {"interop"}
      /\ ReadingBuilt(d) /\ UNCHANGED <<raw, status, off, tx, joined>>
  BY DEF ReadLoad, ScriptPc, BuiltFor
<1>2. /\ call \in CallsOf(d) /\ call \in Calls /\ ignored = {} /\ n \in 0 .. 4 /\ n \in Nat
      /\ calls \in [Calls -> CallType] /\ ArgsOf(d, call) \in ArgLists
  BY <1>1, ScriptFacts
<1>3. CASE pc = "args"
  <2> DEFINE k == n - ix
             t == ArgsOf(d, call)[k]
             r == FromPush(FromArgs(d, call, k - 1))
  <2>1. /\ ix < n /\ calls[call].args_len = n /\ SaysArgs(raw, calls[call], d, call, ix)
        /\ Left(raw, tx.script, soff, FromArgs(d, call, k))
    BY <1>1, <1>3 DEF ReadingBuilt
  <2>2. ix \in Nat
    BY <1>3, ArgIndex
  <2>3. /\ k \in 1 .. n /\ k \in 1 .. Len(ArgsOf(d, call)) /\ k - 1 \in 0 .. Len(ArgsOf(d, call))
        /\ ix \in 0 .. 3 /\ k - 1 = n - (ix + 1)
    <3>1. \A a \in 0 .. 4, b \in Nat : b < a =>
            /\ a - b \in 1 .. a /\ (a - b) - 1 \in 0 .. a
            /\ b \in 0 .. 3 /\ (a - b) - 1 = a - (b + 1)
      OBVIOUS
    <3>2. QED
      BY <1>2, <2>1, <2>2, <3>1
  <2>4. t \in Texts /\ r \in Bytes /\ FromArgs(d, call, k) = LoadText(t) \o r
    BY <1>2, <2>3, ArgTypes, FromTypes, FromArgsUnfolds
  <2> HIDE DEF t, r
  <2>5. PICK s \in Slice :
          /\ Says(raw, s, t) /\ Left(raw, tx.script, soff', r)
          /\ \/ ix >= MAX_ARGS_LEN
             \/ /\ calls' = [calls EXCEPT ![call].args[ix] = s]
                /\ pushing' = TRUE /\ UNCHANGED <<pc, call, ix, scan, ignored>>
    <3>1. Left(raw, tx.script, soff, LoadText(t) \o r)
      BY <2>1, <2>4
    <3>2. QED
      BY <1>3, <2>4, <3>1, LoadRead, Zenon
  <2>6. ~(ix >= MAX_ARGS_LEN) /\ ix \in 0 .. MAX_ARGS_LEN - 1
    BY <2>3 DEF MAX_ARGS_LEN
  <2>7. /\ calls' = [calls EXCEPT ![call].args[ix] = s]
        /\ pushing' = TRUE /\ UNCHANGED <<pc, call, ix, scan, ignored>>
    BY <2>5, <2>6
  <2>8. /\ \A c \in Calls : c # call => calls'[c] = calls[c]
        /\ calls'[call].args[ix] = s /\ calls'[call].args_len = n
        /\ \A j \in 0 .. 3 : j # ix => calls'[call].args[j] = calls[call].args[j]
    <3>1. \A j \in 0 .. 3 : j \in 0 .. MAX_ARGS_LEN - 1
      BY DEF MAX_ARGS_LEN
    <3>2. /\ \A c \in Calls : c # call => calls'[c] = calls[c]
          /\ calls'[call].args[ix] = s /\ calls'[call].args_len = calls[call].args_len
          /\ \A j \in 0 .. MAX_ARGS_LEN - 1 :
               j # ix => calls'[call].args[j] = calls[call].args[j]
      BY <1>2, <2>6, <2>7, ArgStored
    <3>3. QED
      BY <2>1, <3>1, <3>2
  <2>9. SaysArgs(raw, calls'[call], d, call, ix + 1)
    <3>1. Says(raw, calls'[call].args[ix], ArgsOf(d, call)[Len(ArgsOf(d, call)) - ix])
      BY <2>5, <2>8 DEF t
    <3>2. QED
      BY <1>2, <2>1, <2>3, <2>8, <3>1, OneMoreArg
  <2>10. HeaderBuilt(d)' /\ FieldsBuilt(d)' /\ CallsBuilt(d)'
    BY <1>1, <2>7, <2>8, HeaderLeft, CallsLeft DEF ScriptPc
  <2>11. Left(raw, tx.script, soff', FromPush(FromArgs(d, call, n - (ix + 1))))
    BY <2>3, <2>5 DEF r
  <2>12. ReadingBuilt(d)' /\ ScanBuilt(d)'
    BY <1>1, <1>3, <2>1, <2>7, <2>8, <2>9, <2>11 DEF ReadingBuilt, ScanBuilt
  <2>13. QED
    BY <1>2, <1>3, <2>7, <2>10, <2>12 DEF BuiltFor
<1>4. CASE pc = "method"
  <2> DEFINE t == MethodOf(d, call)
             r == IF call = "transfer_tokens" THEN FromExtcall(d, call)
                                              ELSE FromPush(FromName(d, call))
  <2>1. /\ calls[call].args_len = n /\ SaysArgs(raw, calls[call], d, call, n)
        /\ Left(raw, tx.script, soff, LoadText(t) \o r)
    BY <1>1, <1>4 DEF ReadingBuilt, FromMethod
  <2>2. t \in Texts /\ r \in Bytes
    BY <1>2, Described, FromTypes
  <2> HIDE DEF t, r
  <2>3. PICK s \in Slice :
          /\ Says(raw, s, t) /\ Left(raw, tx.script, soff', r)
          /\ calls' = [calls EXCEPT ![call][pc] = s]
          /\ pushing' = (pc = "method" /\ call # "transfer_tokens")
          /\ pc' = CASE pc = "name" -> "ctx"
                     [] pc = "method" -> IF pushing' THEN "method" ELSE "extcall"
          /\ UNCHANGED <<call, ix, scan, ignored>>
    <3>1. pc # "args"
      BY <1>4
    <3>2. QED
      BY <2>1, <2>2, <3>1, LoadRead, Zenon
  <2>4. /\ calls' = [calls EXCEPT ![call]["method"] = s]
        /\ pushing' = (call # "transfer_tokens")
        /\ pc' = IF call # "transfer_tokens" THEN "method" ELSE "extcall"
    <3>1. calls' = [calls EXCEPT ![call]["method"] = s] /\ pushing' = (call # "transfer_tokens")
      BY <1>4, <2>3, Zenon
    <3>2. pc' = IF pushing' THEN "method" ELSE "extcall"
      BY <1>4, <2>3, Zenon
    <3>3. QED
      BY <3>1, <3>2, Zenon
  <2>5. /\ \A c \in Calls : c # call => calls'[c] = calls[c]
        /\ calls'[call].args = calls[call].args /\ calls'[call].args_len = n
        /\ calls'[call].method = s
    BY <1>2, <2>1, <2>4, FieldStored
  <2>6. pc' \in {"method", "extcall"} /\ UNCHANGED <<call, ix, scan, ignored>>
    BY <2>3, <2>4
  <2>7. HeaderBuilt(d)' /\ FieldsBuilt(d)' /\ CallsBuilt(d)'
    BY <1>1, <2>5, <2>6, HeaderLeft, CallsLeft DEF ScriptPc
  <2>8. /\ SaysArgs(raw, calls'[call], d, call, n)
        /\ Says(raw, calls'[call].method, MethodOf(d, call))
    BY <2>1, <2>3, <2>5 DEF SaysArgs, t
  <2>9. ReadingBuilt(d)' /\ ScanBuilt(d)'
    <3>1. CASE call = "transfer_tokens"
      <4>1. pc' = "extcall" /\ Left(raw, tx.script, soff', FromExtcall(d, call))
        BY <2>3, <2>4, <3>1 DEF r
      <4>2. QED
        BY <1>1, <2>5, <2>6, <2>8, <3>1, <4>1 DEF ReadingBuilt, ScanBuilt
    <3>2. CASE call # "transfer_tokens"
      <4>1. pc' = "method" /\ pushing' /\ Left(raw, tx.script, soff', FromPush(FromName(d, call)))
        BY <2>3, <2>4, <3>2 DEF r
      <4>2. QED
        BY <1>1, <2>5, <2>6, <2>8, <3>2, <4>1 DEF ReadingBuilt, ScanBuilt
    <3>3. QED
      BY <3>1, <3>2
  <2>10. QED
    BY <1>2, <2>6, <2>7, <2>9 DEF BuiltFor
<1>5. CASE pc = "name"
  <2> DEFINE t == NameOf(d, call)
             r == FromCtx(d, call)
  <2>1. /\ call # "transfer_tokens" /\ calls[call].args_len = n
        /\ SaysArgs(raw, calls[call], d, call, n)
        /\ Says(raw, calls[call].method, MethodOf(d, call))
        /\ Left(raw, tx.script, soff, LoadText(t) \o r)
    BY <1>1, <1>5 DEF ReadingBuilt, FromName
  <2>2. t \in Texts /\ r \in Bytes
    BY <1>2, Described, FromTypes
  <2> HIDE DEF t, r
  <2>3. PICK s \in Slice :
          /\ Says(raw, s, t) /\ Left(raw, tx.script, soff', r)
          /\ calls' = [calls EXCEPT ![call][pc] = s]
          /\ pushing' = (pc = "method" /\ call # "transfer_tokens")
          /\ pc' = CASE pc = "name" -> "ctx"
                     [] pc = "method" -> IF pushing' THEN "method" ELSE "extcall"
          /\ UNCHANGED <<call, ix, scan, ignored>>
    <3>1. pc # "args"
      BY <1>5
    <3>2. QED
      BY <2>1, <2>2, <3>1, LoadRead, Zenon
  <2>4. calls' = [calls EXCEPT ![call]["name"] = s] /\ ~pushing' /\ pc' = "ctx"
    <3>1. calls' = [calls EXCEPT ![call]["name"] = s] /\ pc' = "ctx"
      BY <1>5, <2>3, Zenon
    <3>2. QED
      BY <1>5, <2>3, <3>1
  <2>5. /\ \A c \in Calls : c # call => calls'[c] = calls[c]
        /\ calls'[call].args = calls[call].args /\ calls'[call].args_len = n
        /\ calls'[call].name = s /\ calls'[call].method = calls[call].method
    BY <1>2, <2>1, <2>4, FieldStored
  <2>6. UNCHANGED <<call, ix, scan, ignored>>
    BY <2>3
  <2>7. HeaderBuilt(d)' /\ FieldsBuilt(d)' /\ CallsBuilt(d)'
    BY <1>1, <2>4, <2>5, <2>6, HeaderLeft, CallsLeft DEF ScriptPc
  <2>8. /\ SaysArgs(raw, calls'[call], d, call, n)
        /\ Says(raw, calls'[call].method, MethodOf(d, call))
        /\ Says(raw, calls'[call].name, NameOf(d, call))
    BY <2>1, <2>3, <2>5 DEF SaysArgs, t
  <2>9. ReadingBuilt(d)' /\ ScanBuilt(d)'
    BY <1>1, <2>1, <2>3, <2>4, <2>5, <2>6, <2>8 DEF ReadingBuilt, ScanBuilt, r
  <2>10. QED
    BY <1>2, <2>4, <2>6, <2>7, <2>9 DEF BuiltFor
<1>6. QED
  BY <1>1, <1>3, <1>4, <1>5

-----------------------------------------------------------------------------
(* The look-ahead.  What it sees at any of the instructions of a call.     *)
ScanSaw(o, args, d, c) ==
  /\ o < Size
  /\ \/ /\ Op(o) = LOAD /\ o + 4 <= Size
        /\ ScanAt(raw, tx.script, Behind(o + 4, Op(o + 3)), args + 1, d, c)
     \/ Op(o) = PUSH /\ o + 2 <= Size /\ ScanAt(raw, tx.script, o + 2, args, d, c)
     \/ Op(o) = CTX /\ c # "transfer_tokens" /\ args - 2 = Len(ArgsOf(d, c))
     \/ Op(o) = EXTCALL /\ c = "transfer_tokens" /\ args - 1 = Len(ArgsOf(d, c))

LEMMA ScanSeesLoad ==
  ASSUME ScriptInside, NEW o \in Nat, NEW args, NEW d \in Built, NEW c \in CallsOf(d),
         NEW t \in Texts, NEW r \in Bytes, Left(raw, tx.script, o, LoadText(t) \o r),
         \A p : Left(raw, tx.script, p, r) => ScanAt(raw, tx.script, p, args + 1, d, c)
  PROVE  ScanSaw(o, args, d, c)
<1>1. At(o, LoadText(t) \o r)
  BY DEF At
<1>2. /\ o < Size /\ o + 4 <= Size /\ Op(o) = LOAD
      /\ Behind(o + 4, Op(o + 3)) = o + 4 + Len(t)
      /\ At(o + 4 + Len(t), r)
  BY <1>1, AtLoad
<1>3. ScanAt(raw, tx.script, Behind(o + 4, Op(o + 3)), args + 1, d, c)
  BY <1>2 DEF At
<1>4. QED
  BY <1>2, <1>3 DEF ScanSaw

LEMMA ScanSeesPush ==
  ASSUME ScriptInside, NEW o \in Nat, NEW args, NEW d \in Built, NEW c \in CallsOf(d),
         NEW r \in Bytes, Left(raw, tx.script, o, FromPush(r)),
         \A p : Left(raw, tx.script, p, r) => ScanAt(raw, tx.script, p, args, d, c)
  PROVE  ScanSaw(o, args, d, c)
<1>1. o < Size /\ o + 2 <= Size /\ Op(o) = PUSH /\ At(o + 2, r)
  BY AtPush DEF At
<1>2. QED
  BY <1>1 DEF At, ScanSaw

LEMMA ScanSeesCall ==
  ASSUME ScriptInside, NEW o \in Nat, NEW args, NEW d \in Built, NEW c \in CallsOf(d),
         ScanAt(raw, tx.script, o, args, d, c)
  PROVE  ScanSaw(o, args, d, c)
<1> DEFINE n == Len(ArgsOf(d, c))
           Lies(s) == Left(raw, tx.script, o, s)
<1>1. /\ ArgsOf(d, c) \in ArgLists /\ n \in Nat
      /\ MethodOf(d, c) \in Texts /\ NameOf(d, c) \in Texts
  BY Described, ArgTypes
<1>2. /\ After(d, c) \in Bytes /\ FromSwitch(d, c) \in Bytes /\ FromCtx(d, c) \in Bytes
      /\ FromName(d, c) \in Bytes /\ FromExtcall(d, c) \in Bytes
      /\ FromPush(FromName(d, c)) \in Bytes
      /\ \A k \in 0 .. n : FromArgs(d, c, k) \in Bytes /\ FromPush(FromArgs(d, c, k)) \in Bytes
  BY FromTypes
<1>3. ASSUME NEW k \in 0 .. n, args = n - k, Lies(FromArgs(d, c, k))
      PROVE  ScanSaw(o, args, d, c)
  <2>1. CASE k = 0
    <3> DEFINE r == IF c = "transfer_tokens" THEN FromExtcall(d, c)
                                             ELSE FromPush(FromName(d, c))
    <3>1. Lies(LoadText(MethodOf(d, c)) \o r)
      BY <1>3, <2>1, FromArgsUnfolds DEF FromMethod
    <3>2. r \in Bytes /\ args + 1 = n + 1
      BY <1>1, <1>2, <1>3, <2>1
    <3>3. \A p : Left(raw, tx.script, p, r) => ScanAt(raw, tx.script, p, args + 1, d, c)
      BY <3>2 DEF ScanAt
    <3> HIDE DEF r
    <3>4. QED
      BY <1>1, <3>1, <3>2, <3>3, ScanSeesLoad
  <2>2. CASE k # 0
    <3> DEFINE t == ArgsOf(d, c)[k]
               r == FromPush(FromArgs(d, c, k - 1))
    <3>1. /\ k \in 1 .. n /\ k - 1 \in 0 .. n - 1 /\ k - 1 \in 0 .. n
          /\ args + 1 = n - (k - 1)
      <4>1. \A a \in Nat : \A b \in 0 .. a : b # 0 =>
              /\ b \in 1 .. a /\ b - 1 \in 0 .. a - 1 /\ b - 1 \in 0 .. a
              /\ (a - b) + 1 = a - (b - 1)
        OBVIOUS
      <4> HIDE DEF n
      <4>2. QED
        BY <1>1, <1>3, <2>2, <4>1
    <3>2. t \in Texts /\ r \in Bytes /\ Lies(LoadText(t) \o r)
      BY <1>1, <1>2, <1>3, <3>1, ArgTypes, FromArgsUnfolds
    <3>3. \A p : Left(raw, tx.script, p, r) => ScanAt(raw, tx.script, p, args + 1, d, c)
      BY <3>1 DEF ScanAt
    <3> HIDE DEF t, r
    <3>4. QED
      BY <3>2, <3>3, ScanSeesLoad
  <2>3. QED
    BY <2>1, <2>2
<1>4. ASSUME NEW k \in 0 .. n - 1, args = n - k, Lies(FromPush(FromArgs(d, c, k)))
      PROVE  ScanSaw(o, args, d, c)
  <2>1. k \in 0 .. n /\ FromArgs(d, c, k) \in Bytes
    BY <1>1, <1>2
  <2>2. \A p : Left(raw, tx.script, p, FromArgs(d, c, k))
                 => ScanAt(raw, tx.script, p, args, d, c)
    BY <1>4, <2>1 DEF ScanAt
  <2>3. QED
    BY <1>4, <2>1, <2>2, ScanSeesPush
<1>5. ASSUME c = "transfer_tokens", args = n + 1, Lies(FromExtcall(d, c))
      PROVE  ScanSaw(o, args, d, c)
  <2>1. At(o, <<EXTCALL, 0>> \o After(d, c))
    BY <1>5 DEF At, FromExtcall
  <2>2. /\ <<EXTCALL, 0>> \in Bytes /\ Len(<<EXTCALL, 0>>) = 1 + 1
        /\ <<EXTCALL, 0>>[1] = EXTCALL
    BY OpcodeTexts
  <2>3. o < Size /\ Op(o) = EXTCALL
    BY <1>2, <2>1, <2>2, AtOpcode
  <2>4. args - 1 = n
    BY <1>1, <1>5
  <2>5. QED
    BY <1>5, <2>3, <2>4 DEF ScanSaw
<1>6. ASSUME c # "transfer_tokens", args = n + 1, Lies(FromPush(FromName(d, c)))
      PROVE  ScanSaw(o, args, d, c)
  <2>1. \A p : Left(raw, tx.script, p, FromName(d, c))
                 => ScanAt(raw, tx.script, p, args, d, c)
    BY <1>6 DEF ScanAt
  <2>2. QED
    BY <1>2, <1>6, <2>1, ScanSeesPush
<1>7. ASSUME c # "transfer_tokens", args = n + 1, Lies(FromName(d, c))
      PROVE  ScanSaw(o, args, d, c)
  <2>1. args + 1 = n + 2
    BY <1>1, <1>7
  <2>2. \A p : Left(raw, tx.script, p, FromCtx(d, c))
                 => ScanAt(raw, tx.script, p, args + 1, d, c)
    BY <1>7, <2>1 DEF ScanAt
  <2>3. QED
    BY <1>1, <1>2, <1>7, <2>2, ScanSeesLoad DEF FromName
<1>8. ASSUME c # "transfer_tokens", args = n + 2, Lies(FromCtx(d, c))
      PROVE  ScanSaw(o, args, d, c)
  <2>1. At(o, <<CTX, 0, 1>> \o FromSwitch(d, c))
    BY <1>8 DEF At, FromCtx
  <2>2. <<CTX, 0, 1>> \in Bytes /\ Len(<<CTX, 0, 1>>) = 2 + 1 /\ <<CTX, 0, 1>>[1] = CTX
    BY OpcodeTexts
  <2>3. o < Size /\ Op(o) = CTX
    BY <1>2, <2>1, <2>2, AtOpcode
  <2>4. args - 2 = n
    BY <1>1, <1>8
  <2>5. QED
    BY <1>8, <2>3, <2>4 DEF ScanSaw
<1>9. QED
  BY <1>3, <1>4, <1>5, <1>6, <1>7, <1>8 DEF ScanAt

(* The call ahead of the look-ahead.                                       *)
Ahead(d) == IF pc = "interop" THEN Main(d) ELSE call

LEMMA ScanOnBuilt ==
  ASSUME NEW d \in Built, BuiltFor(d), Scanning, NEW o, NEW args, ScanOn(o, args),
         ScanAt(raw, tx.script, o, args, d, Ahead(d))
  PROVE  BuiltFor(d)'
<1>1. /\ UNCHANGED <<raw, pc, status, off, tx, call, calls, ix, pushing, soff, ignored, joined>>
      /\ scan' = [off |-> o, args |-> args]
  BY DEF ScanOn
<1>2. scan'.off = o /\ scan'.args = args
  BY <1>1
<1>3. ignored = {} /\ HeaderBuilt(d) /\ CallsBuilt(d) /\ ReadingBuilt(d) /\ FieldsBuilt(d)
  BY DEF BuiltFor
<1>4. HeaderBuilt(d)' /\ FieldsBuilt(d)'
  BY <1>1, <1>3 DEF HeaderBuilt, FieldsBuilt
<1>5. CallsBuilt(d)'
  BY <1>1, <1>3 DEF CallsBuilt, Scanning
<1>6. ReadingBuilt(d)'
  BY <1>1, <1>3 DEF ReadingBuilt
<1>7. ScanBuilt(d)'
  BY <1>1, <1>2 DEF ScanBuilt, Ahead
<1>8. QED
  BY <1>1, <1>3, <1>4, <1>5, <1>6, <1>7 DEF BuiltFor, Scanning

LEMMA LengthStored ==
  ASSUME calls \in [Calls -> CallType], call \in Calls, NEW n,
         calls' = [calls EXCEPT ![call].args_len = n]
  PROVE  /\ \A c \in Calls : c # call => calls'[c] = calls[c]
         /\ calls'[call].args_len = n
<1> DEFINE k == calls[call]
<1>1. k \in CallType /\ calls' = [calls EXCEPT ![call] = [k EXCEPT !.args_len = n]]
  OBVIOUS
<1>2. calls'[call] = [k EXCEPT !.args_len = n] /\ \A c \in Calls : c # call => calls'[c] = calls[c]
  BY <1>1
<1> HIDE DEF k
<1>3. calls'[call].args_len = n
  BY <1>1, <1>2 DEF CallType
<1>4. QED
  BY <1>2, <1>3

LEMMA ScannedBuilt ==
  ASSUME Inv, NEW d \in Built, BuiltFor(d), Scanning, NEW isInterop,
         Scanned(Len(ArgsOf(d, Ahead(d))), isInterop),
         isInterop = (Ahead(d) = "transfer_tokens")
  PROVE  BuiltFor(d)'
<1> DEFINE n == Len(ArgsOf(d, call))
<1>1. /\ pc \in {"count", "interop"} /\ pc \in ScriptPc
      /\ CallsBuilt(d) /\ ReadingBuilt(d) /\ ignored = {}
      /\ UNCHANGED <<raw, status, off, pushing, soff, ignored, joined>>
  BY DEF Scanning, ScriptPc, BuiltFor, Scanned
<1>2. /\ call \in CallsOf(d) /\ call \in Calls /\ n \in 0 .. 4 /\ n \in Nat
      /\ calls \in [Calls -> CallType] /\ tx \in TxType
  BY <1>1, ScriptFacts
<1>3. CASE pc = "count"
  <2>1. /\ calls' = [calls EXCEPT ![call].args_len = n % 256]
        /\ ix' = 0 /\ pc' = IF n % 256 = 0 THEN "method" ELSE "args"
        /\ UNCHANGED <<call, scan, tx>>
    BY <1>3 DEF Scanned, Ahead
  <2>2. n % 256 = n
    <3>1. \A m \in 0 .. 4 : m % 256 = m
      OBVIOUS
    <3>2. QED
      BY <1>2, <3>1
  <2> HIDE DEF n
  <2>3. /\ \A c \in Calls : c # call => calls'[c] = calls[c]
        /\ calls'[call].args_len = n
    BY <1>2, <2>1, <2>2, LengthStored
  <2>4. pc' \in {"method", "args"} /\ (pc' = "method" <=> n = 0)
    BY <2>1, <2>2
  <2>5. HeaderBuilt(d)' /\ FieldsBuilt(d)' /\ CallsBuilt(d)'
    BY <1>1, <1>3, <2>1, <2>3, <2>4, HeaderLeft, CallsLeft DEF ScriptPc
  <2>6. ~pushing /\ Left(raw, tx.script, soff, FromArgs(d, call, n))
    BY <1>1, <1>2, <1>3, FromArgsUnfolds DEF ReadingBuilt, n
  <2>7. SaysArgs(raw, calls'[call], d, call, 0)
    BY DEF SaysArgs
  <2>8. ReadingBuilt(d)' /\ ScanBuilt(d)'
    <3>1. CASE n = 0
      <4>1. pc' = "method" /\ Left(raw, tx.script, soff, FromMethod(d, call))
        BY <1>2, <2>4, <2>6, <3>1, FromArgsUnfolds
      <4>2. QED
        BY <1>1, <2>1, <2>3, <2>6, <2>7, <3>1, <4>1 DEF ReadingBuilt, ScanBuilt, n
    <3>2. CASE n # 0
      <4>1. pc' = "args" /\ 0 < n /\ n - 0 = n
        BY <1>2, <2>4, <3>2
      <4>2. QED
        BY <1>1, <2>1, <2>3, <2>6, <2>7, <4>1 DEF ReadingBuilt, ScanBuilt, n
    <3>3. QED
      BY <3>1, <3>2
  <2>9. QED
    BY <1>1, <2>4, <2>5, <2>8 DEF BuiltFor
<1>4. CASE pc = "interop"
  <2>1. isInterop = (Main(d) = "transfer_tokens") /\ d.type \in {"TRANSFER", "CUSTOM"}
    BY <1>4, Described DEF Ahead
  <2>2. /\ call' = Main(d) /\ tx' = [tx EXCEPT !.type = d.type]
        /\ scan' = [off |-> soff, args |-> 0] /\ pc' = "count"
        /\ UNCHANGED <<calls, ix>>
    <3>1. /\ call' = IF isInterop THEN "transfer_tokens" ELSE "contract_call"
          /\ tx' = [tx EXCEPT !.type = IF isInterop THEN "TRANSFER" ELSE "CUSTOM"]
          /\ scan' = [off |-> soff, args |-> 0] /\ pc' = "count"
          /\ UNCHANGED <<calls, ix>>
      BY <1>4 DEF Scanned
    <3>2. CASE d.type = "TRANSFER"
      BY <2>1, <3>1, <3>2 DEF Main
    <3>3. CASE d.type = "CUSTOM"
      BY <2>1, <3>1, <3>3 DEF Main
    <3>4. QED
      BY <2>1, <3>2, <3>3
  <2>3. /\ tx'.type = d.type /\ tx'.script = tx.script
        /\ tx'.nexus = tx.nexus /\ tx'.chain = tx.chain
        /\ scan'.off = soff /\ scan'.args = 0
    BY <1>2, <2>2 DEF TxType
  <2>4. HeaderBuilt(d)' /\ FieldsBuilt(d)'
    BY <1>1, <2>2, <2>3, HeaderLeft DEF ScriptPc
  <2>5. Main(d) \in CallsOf(d) /\ Main(d) # "allow_gas" /\ Main(d) # "spend_gas"
    BY DEF Main, CallsOf
  <2>6. CallsBuilt(d)'
    BY <1>1, <1>4, <2>2, <2>3, <2>5 DEF CallsBuilt
  <2>7. ~pushing /\ Left(raw, tx.script, soff, FromCall(d, Main(d)))
    BY <1>1, <1>4 DEF ReadingBuilt
  <2>8. ReadingBuilt(d)'
    BY <1>1, <2>2, <2>3, <2>7 DEF ReadingBuilt
  <2>9. ScanAt(raw, tx.script, soff, 0, d, Main(d))
    BY <2>5, <2>7, ScanStarts
  <2>10. ScanBuilt(d)'
    BY <1>1, <2>2, <2>3, <2>9 DEF ScanBuilt
  <2>11. QED
    BY <1>1, <2>2, <2>4, <2>6, <2>8, <2>10 DEF BuiltFor
<1>5. QED
  BY <1>1, <1>3, <1>4

LEMMA LookAheadBuilt ==
  ASSUME Inv, NEW d \in Built, BuiltFor(d),
         ScanLoad \/ ScanPush \/ ScanCtx \/ ScanExtcall \/ ScanOther \/ ScanEnd
  PROVE  BuiltFor(d)'
<1> DEFINE c == Ahead(d)
<1>1. Scanning /\ pc \in {"count", "interop"} /\ pc \in ScriptPc /\ ScanBuilt(d)
  BY DEF ScanLoad, ScanPush, ScanCtx, ScanExtcall, ScanOther, ScanEnd, ScanSees, Scanning,
         ScriptPc, BuiltFor
<1>2. ScriptInside /\ Size \in Nat /\ scan.off \in Nat /\ c \in CallsOf(d)
  BY <1>1, ScriptFacts DEF Ahead, Main, CallsOf
<1>3. ScanAt(raw, tx.script, scan.off, scan.args, d, c)
  BY <1>1 DEF ScanBuilt, Ahead
<1>4. ScanSaw(scan.off, scan.args, d, c)
  BY <1>2, <1>3, ScanSeesCall
<1> HIDE DEF c
<1>5. /\ scan.off < Size
      /\ LOAD \notin {PUSH, CTX, EXTCALL} /\ PUSH \notin {CTX, EXTCALL} /\ CTX # EXTCALL
      /\ Op(scan.off) \in {LOAD, PUSH, CTX, EXTCALL}
  BY <1>4 DEF ScanSaw, LOAD, PUSH, CTX, EXTCALL
<1>6. CASE ScanLoad
  <2>1. Op(scan.off) = LOAD
    BY <1>6 DEF ScanLoad, ScanSees
  <2>2. /\ scan.off + 4 <= Size
        /\ ScanAt(raw, tx.script, Behind(scan.off + 4, Op(scan.off + 3)), scan.args + 1, d, c)
    BY <1>4, <1>5, <2>1 DEF ScanSaw
  <2>3. ~(scan.off + 4 > Size)
    BY <1>2, <2>2
  <2>4. ScanOn(Behind(scan.off + 4, Op(scan.off + 3)), scan.args + 1)
    BY <1>6, <2>3 DEF ScanLoad
  <2>5. QED
    BY <1>1, <2>2, <2>4, ScanOnBuilt DEF c
<1>7. CASE ScanPush
  <2>1. Op(scan.off) = PUSH
    BY <1>7 DEF ScanPush, ScanSees
  <2>2. scan.off + 2 <= Size /\ ScanAt(raw, tx.script, scan.off + 2, scan.args, d, c)
    BY <1>4, <1>5, <2>1 DEF ScanSaw
  <2>3. ~(scan.off + 2 > Size)
    BY <1>2, <2>2
  <2>4. ScanOn(scan.off + 2, scan.args)
    BY <1>7, <2>3 DEF ScanPush
  <2>5. QED
    BY <1>1, <2>2, <2>4, ScanOnBuilt DEF c
<1>8. CASE ScanCtx
  <2>1. Op(scan.off) = CTX /\ Scanned(scan.args - 2, FALSE)
    BY <1>8 DEF ScanCtx, ScanSees
  <2>2. c # "transfer_tokens" /\ scan.args - 2 = Len(ArgsOf(d, c))
    BY <1>4, <1>5, <2>1 DEF ScanSaw
  <2>3. QED
    BY <1>1, <2>1, <2>2, ScannedBuilt DEF c
<1>9. CASE ScanExtcall
  <2>1. Op(scan.off) = EXTCALL /\ Scanned(scan.args - 1, TRUE)
    BY <1>9 DEF ScanExtcall, ScanSees
  <2>2. c = "transfer_tokens" /\ scan.args - 1 = Len(ArgsOf(d, c))
    BY <1>4, <1>5, <2>1 DEF ScanSaw
  <2>3. QED
    BY <1>1, <2>1, <2>2, ScannedBuilt DEF c
<1>10. ~ScanOther
  BY <1>5 DEF ScanOther, ScanSees
<1>11. ~ScanEnd
  <2>1. \A m, k \in Nat : m < k => ~(m >= k)
    OBVIOUS
  <2>2. ~(scan.off >= Size)
    BY <1>2, <1>5, <2>1
  <2>3. QED
    BY <2>2 DEF ScanEnd
<1>12. QED
  BY <1>6, <1>7, <1>8, <1>9, <1>10, <1>11

-----------------------------------------------------------------------------
(* The listing of the arguments.  What the first k of them are listed as   *)
(* begins what all of them are listed as.                                  *)
Begins(s, t) == Len(s) <= Len(t) /\ \A i \in 1 .. Len(s) : t[i] = s[i]

LEMMA CommaType ==
  /\ <<COMMA>> \in Bytes /\ Len(<<COMMA>>) = 1
  /\ \A s \in Bytes : Append(s, COMMA) = s \o <<COMMA>>
<1>1. COMMA \in 0 .. 255
  BY DEF COMMA
<1>2. \A s \in Bytes : Append(s, COMMA) = s \o <<COMMA>>
  BY <1>1, AppendIsConcat DEF Bytes
<1>3. QED
  BY <1>1, <1>2, Bytes1

LEMMA ListingTypes ==
  ASSUME NEW args \in ArgLists
  PROVE  \A k \in 0 .. Len(args) :
           /\ Listing(args)[k] \in Bytes /\ Len(Listing(args)[k]) \in Nat
           /\ ListedSoFar(args, k) \in Bytes
           /\ k > 0 => Len(ListedSoFar(args, k)) = Len(Listing(args)[k]) + 1
<1> DEFINE l == Listing(args)
           n == Len(args)
           S == {k \in Nat : k <= n => l[k] \in Bytes}
<1>1. /\ n \in Nat /\ l[0] = <<>>
      /\ \A k \in 1 .. n :
           /\ l[k] = (IF k = 1 THEN <<>> ELSE l[k - 1] \o <<COMMA>>) \o args[k]
           /\ args[k] \in Texts
  BY ArgTypes, ListingUnfolds
<1> HIDE DEF l, n
<1>2. \A k \in Nat : k \in S => k + 1 \in S
  <2> SUFFICES ASSUME NEW k \in Nat, k \in S, k + 1 <= n PROVE l[k + 1] \in Bytes
    OBVIOUS
  <2>1. k + 1 \in 1 .. n /\ (k + 1) - 1 = k /\ k <= n
    BY <1>1
  <2>2. l[k] \in Bytes /\ args[k + 1] \in Bytes
    BY <1>1, <2>1, TextTypes
  <2>3. (IF k + 1 = 1 THEN <<>> ELSE l[k] \o <<COMMA>>) \in Bytes
    BY <2>2, CommaType, Bytes0, BytesConcat
  <2>4. l[k + 1] = (IF k + 1 = 1 THEN <<>> ELSE l[k] \o <<COMMA>>) \o args[k + 1]
    BY <1>1, <2>1
  <2>5. QED
    BY <2>2, <2>3, <2>4, BytesConcat
<1>3. 0 \in S
  BY <1>1, Bytes0
<1> HIDE DEF S
<1>4. Nat \subseteq S
  BY <1>2, <1>3, NumbersByInduction
<1> SUFFICES ASSUME NEW k \in 0 .. n
             PROVE  /\ l[k] \in Bytes /\ Len(l[k]) \in Nat
                    /\ ListedSoFar(args, k) \in Bytes
                    /\ k > 0 => Len(ListedSoFar(args, k)) = Len(l[k]) + 1
  BY DEF l, n
<1>5. l[k] \in Bytes
  BY <1>1, <1>4 DEF S
<1>6. Len(l[k]) \in Nat
  BY <1>5, LenProperties DEF Bytes
<1>7. l[k] \o <<COMMA>> \in Bytes /\ Len(l[k] \o <<COMMA>>) = Len(l[k]) + 1
  <2>1. l[k] \o <<COMMA>> \in Bytes /\ Len(l[k] \o <<COMMA>>) = Len(l[k]) + Len(<<COMMA>>)
    BY <1>5, CommaType, BytesConcat
  <2>2. QED
    BY <2>1, CommaType
<1>8. ListedSoFar(args, k) = IF k = 0 THEN <<>> ELSE l[k] \o <<COMMA>>
  BY DEF ListedSoFar, l
<1>9. QED
  BY <1>5, <1>6, <1>7, <1>8, Bytes0

(* One more argument is listed.                                            *)
LEMMA ListedNext ==
  ASSUME NEW args \in ArgLists, NEW k \in 1 .. Len(args)
  PROVE  /\ Listing(args)[k] = ListedSoFar(args, k - 1) \o args[k]
         /\ Len(Listing(args)[k]) = Len(ListedSoFar(args, k - 1)) + Len(args[k])
         /\ ListedSoFar(args, k) = Listing(args)[k] \o <<COMMA>>
<1>1. /\ Len(args) \in Nat /\ args[k] \in Bytes
      /\ Listing(args)[k] =
           (IF k = 1 THEN <<>> ELSE Listing(args)[k - 1] \o <<COMMA>>) \o args[k]
  BY ArgTypes, TextTypes, ListingUnfolds
<1>2. k - 1 \in 0 .. Len(args) /\ (k - 1 = 0 <=> k = 1) /\ k # 0
  BY <1>1
<1>3. ListedSoFar(args, k - 1) = IF k = 1 THEN <<>> ELSE Listing(args)[k - 1] \o <<COMMA>>
  BY <1>2 DEF ListedSoFar
<1>4. ListedSoFar(args, k - 1) \in Bytes
  BY <1>2, ListingTypes
<1>5. ListedSoFar(args, k) = Listing(args)[k] \o <<COMMA>>
  BY <1>2 DEF ListedSoFar
<1>6. Listing(args)[k] = ListedSoFar(args, k - 1) \o args[k]
  BY <1>1, <1>3
<1>7. Len(Listing(args)[k]) = Len(ListedSoFar(args, k - 1)) + Len(args[k])
  <2> DEFINE q == ListedSoFar(args, k - 1)
             a == args[k]
  <2>1. q \in Bytes /\ a \in Bytes /\ Listing(args)[k] = q \o a
    BY <1>1, <1>4, <1>6
  <2> HIDE DEF q, a
  <2>2. Len(Listing(args)[k]) = Len(q) + Len(a)
    BY <2>1, BytesConcat
  <2>3. QED
    BY <2>2 DEF q, a
<1>8. QED
  BY <1>5, <1>6, <1>7

LEMMA ListingGrows ==
  ASSUME NEW args \in ArgLists, NEW k \in 1 .. Len(args), k # Len(args)
  PROVE  /\ Len(Listing(args)[k]) < Len(Listed(args))
         /\ Begins(Listing(args)[k], Listed(args))
<1> DEFINE l == Listing(args)
           n == Len(args)
           Longer(j) == Len(l[k]) < Len(l[j]) /\ Begins(l[k], l[j])
           S == {j \in Nat : k < j /\ j <= n => Longer(j)}
<1>1. n \in Nat /\ k \in Nat /\ k \in 0 .. n /\ k < n
  BY ArgTypes
<1>2. ASSUME NEW j \in 1 .. n - 1
      PROVE  Len(l[j]) < Len(l[j + 1]) /\ Begins(l[j], l[j + 1])
  <2>1. j + 1 \in 1 .. n /\ (j + 1) - 1 = j /\ j \in 1 .. n /\ j \in 0 .. n /\ j + 1 \in 0 .. n
    BY <1>1
  <2> DEFINE before == l[j]
             with == ListedSoFar(args, j)
             arg == args[j + 1]
             after == l[j + 1]
  <2>2. after = with \o arg /\ Len(after) = Len(with) + Len(arg) /\ with = before \o <<COMMA>>
    BY <2>1, ListedNext
  <2>3. /\ before \in Bytes /\ Len(before) \in Nat /\ Len(after) \in Nat
        /\ with \in Bytes /\ Len(with) = Len(before) + 1
    <3>1. j > 0
      BY <2>1
    <3>2. QED
      BY <2>1, <3>1, ListingTypes
  <2>4. arg \in Bytes /\ Len(arg) \in Nat
    BY <2>1, ArgTypes, TextTypes
  <2> HIDE DEF before, with, arg, after
  <2>5. Len(before) < Len(after)
    BY <2>2, <2>3, <2>4
  <2>6. \A i \in 1 .. Len(with) : after[i] = with[i]
    BY <2>2, <2>3, <2>4, BytesConcat
  <2>7. \A i \in 1 .. Len(before) : with[i] = before[i] /\ i \in 1 .. Len(with)
    <3>1. \A i \in 1 .. Len(before) : with[i] = before[i]
      BY <2>2, <2>3, CommaType, BytesConcat
    <3>2. QED
      BY <2>3, <3>1
  <2>8. Begins(before, after)
    BY <2>3, <2>5, <2>6, <2>7 DEF Begins
  <2>9. QED
    BY <2>5, <2>8 DEF before, after
<1> HIDE DEF l
<1>3. \A j \in 0 .. n : Len(l[j]) \in Nat
  BY ListingTypes DEF l
<1>4. \A j \in Nat : j \in S => j + 1 \in S
  <2> SUFFICES ASSUME NEW j \in Nat, j \in S, k < j + 1, j + 1 <= n PROVE Longer(j + 1)
    OBVIOUS
  <2>1. j \in 1 .. n - 1 /\ j \in 0 .. n /\ j + 1 \in 0 .. n /\ j <= n /\ (k < j \/ k = j)
    BY <1>1
  <2>2. /\ Len(l[k]) \in Nat /\ Len(l[j]) \in Nat /\ Len(l[j + 1]) \in Nat
        /\ Len(l[j]) < Len(l[j + 1]) /\ Begins(l[j], l[j + 1])
    BY <1>1, <1>2, <1>3, <2>1
  <2>3. CASE k = j
    BY <2>2, <2>3
  <2>4. CASE k < j
    <3>1. Len(l[k]) < Len(l[j]) /\ Begins(l[k], l[j])
      BY <2>1, <2>4
    <3>2. Len(l[k]) < Len(l[j + 1])
      BY <2>2, <3>1
    <3>3. \A i \in 1 .. Len(l[k]) : i \in 1 .. Len(l[j])
      BY <2>2, <3>1
    <3>4. Begins(l[k], l[j + 1])
      BY <2>2, <3>1, <3>2, <3>3 DEF Begins
    <3>5. QED
      BY <3>2, <3>4
  <2>5. QED
    BY <2>1, <2>3, <2>4
<1>5. 0 \in S
  BY <1>1
<1>6. Nat \subseteq S
  <2> HIDE DEF S
  <2>1. QED
    BY <1>4, <1>5, NumbersByInduction
<1>7. Longer(n)
  BY <1>1, <1>6
<1>8. QED
  BY <1>7 DEF Listed, l

(* Two texts that begin alike.                                             *)
LEMMA SameBeginning ==
  ASSUME NEW s \in Bytes, NEW t \in Bytes, NEW m \in Nat, m <= Len(s), m <= Len(t),
         \A i \in 1 .. m : s[i] = t[i]
  PROVE  SubSeq(s, 1, m) = SubSeq(t, 1, m)
<1> DEFINE u == SubSeq(s, 1, m)
           v == SubSeq(t, 1, m)
<1>1. Len(s) \in Nat /\ Len(t) \in Nat
  BY LenProperties DEF Bytes
<1>2. ASSUME NEW w \in Bytes, m <= Len(w), Len(w) \in Nat
      PROVE  /\ SubSeq(w, 1, m) \in Bytes /\ Len(SubSeq(w, 1, m)) = m
             /\ \A i \in 1 .. m : SubSeq(w, 1, m)[i] = w[i]
  <2>1. \A i \in 1 .. m : w[i] \in 0 .. 255
    <3>1. \A i \in 1 .. m : i \in 1 .. Len(w)
      BY <1>2
    <3>2. QED
      BY <3>1, ElementOfSeq DEF Bytes
  <2>2. /\ SubSeq(w, 1, m) \in Seq(0 .. 255)
        /\ Len(SubSeq(w, 1, m)) = IF 1 <= m THEN m - 1 + 1 ELSE 0
        /\ \A i \in 1 .. m - 1 + 1 : SubSeq(w, 1, m)[i] = w[1 + i - 1]
    BY <2>1, SubSeqProperties
  <2>3. (IF 1 <= m THEN m - 1 + 1 ELSE 0) = m /\ m - 1 + 1 = m
        /\ \A i \in 1 .. m : 1 + i - 1 = i
    OBVIOUS
  <2>4. QED
    BY <2>2, <2>3 DEF Bytes
<1>3. /\ u \in Bytes /\ Len(u) = m /\ v \in Bytes /\ Len(v) = m
      /\ \A i \in 1 .. m : u[i] = s[i] /\ v[i] = t[i]
  BY <1>1, <1>2
<1> HIDE DEF u, v
<1>4. u = v
  BY <1>3, SeqEqual DEF Bytes
<1>5. QED
  BY <1>4 DEF u, v

-----------------------------------------------------------------------------
(* The steps that take the fields under review from the calls.             *)
TakesTransfer(t, u, a, b, c, e, f, g) ==
  u = [[t EXCEPT !.gas_price = a, !.gas_limit = b]
         EXCEPT !.from = c, !.to = e, !.token = f, !.value = g]
TakesCustom(t, u, a, b, c, e, f) ==
  u = [[t EXCEPT !.gas_price = a, !.gas_limit = b]
         EXCEPT !.from = c, !.name = e, !.method = f]
SameHead(t, u) == /\ u.nexus = t.nexus /\ u.chain = t.chain /\ u.script = t.script
                  /\ u.payload = t.payload /\ u.type = t.type

LEMMA TransferSet ==
  ASSUME NEW t \in TxType, NEW u, NEW a, NEW b, NEW c, NEW e, NEW f, NEW g,
         TakesTransfer(t, u, a, b, c, e, f, g)
  PROVE  /\ u.gas_price = a /\ u.gas_limit = b
         /\ u.from = c /\ u.to = e /\ u.token = f /\ u.value = g
         /\ SameHead(t, u)
BY DEF TxType, TakesTransfer, SameHead

LEMMA CustomSet ==
  ASSUME NEW t \in TxType, NEW u, NEW a, NEW b, NEW c, NEW e, NEW f,
         TakesCustom(t, u, a, b, c, e, f)
  PROVE  /\ u.gas_price = a /\ u.gas_limit = b
         /\ u.from = c /\ u.name = e /\ u.method = f
         /\ SameHead(t, u)
BY DEF TxType, TakesCustom, SameHead

(* The arguments of a call that has four of them.                          *)
LEMMA FourArgs ==
  ASSUME NEW k, NEW d, NEW c, SaysCall(raw, k, d, c), Len(ArgsOf(d, c)) = 4
  PROVE  /\ Says(raw, k.args[0], ArgsOf(d, c)[4]) /\ Says(raw, k.args[1], ArgsOf(d, c)[3])
         /\ Says(raw, k.args[2], ArgsOf(d, c)[2]) /\ Says(raw, k.args[3], ArgsOf(d, c)[1])
<1>1. \A i \in 0 .. 4 - 1 : Says(raw, k.args[i], ArgsOf(d, c)[4 - i])
  BY DEF SaysCall, SaysArgs
<1>2. /\ 0 \in 0 .. 4 - 1 /\ 1 \in 0 .. 4 - 1 /\ 2 \in 0 .. 4 - 1 /\ 3 \in 0 .. 4 - 1
      /\ 4 - 0 = 4 /\ 4 - 1 = 3 /\ 4 - 2 = 2 /\ 4 - 3 = 1
  OBVIOUS
<1>3. QED
  BY <1>1, <1>2

LEMMA SetFieldsBuilt ==
  ASSUME Inv, NEW d \in Built, BuiltFor(d), SetFields
  PROVE  BuiltFor(d)'
<1> DEFINE gas == calls["allow_gas"].args
           transfer == calls["transfer_tokens"].args
           custom == calls["contract_call"]
<1>1. /\ pc = "fields" /\ tx \in TxType /\ HeaderBuilt(d) /\ CallsBuilt(d)
      /\ ignored = {} /\ joined = <<>> /\ call = "spend_gas" /\ tx.type = d.type
      /\ UNCHANGED <<raw, off, call, calls, pushing, soff, scan, ignored, joined>>
  BY DEF SetFields, BuiltFor, HeaderBuilt, CallsBuilt, FieldsBuilt, Inv, TypeInv
<1>2. /\ SaysCall(raw, calls["allow_gas"], d, "allow_gas")
      /\ SaysCall(raw, calls[Main(d)], d, Main(d))
  BY <1>1 DEF CallsBuilt
<1>3. /\ d.type \in {"TRANSFER", "CUSTOM"} /\ Len(d.gas) = 4 /\ d.args \in ArgLists
      /\ d.type = "TRANSFER" => Len(d.args) = 4
  BY Described, BuiltAssumption DEF Descriptions
<1>4. Says(raw, gas[1], d.gas[3]) /\ Says(raw, gas[0], d.gas[4]) /\ Says(raw, gas[3], d.gas[1])
  <2>1. ArgsOf(d, "allow_gas") = d.gas /\ Len(ArgsOf(d, "allow_gas")) = 4
    BY <1>3 DEF ArgsOf
  <2>2. QED
    BY <1>2, <2>1, FourArgs
<1>5. ASSUME SameHead(tx, tx'), pc' \in {"join", "done"}
      PROVE  HeaderBuilt(d)' /\ CallsBuilt(d)' /\ ReadingBuilt(d)' /\ ScanBuilt(d)'
  <2>1. /\ Says(raw, tx.nexus, d.nexus) /\ Says(raw, tx.chain, d.chain)
        /\ Says(raw, tx.script, Script(d)) /\ Says(raw, tx.payload, d.payload)
    BY <1>1 DEF HeaderBuilt
  <2>2. HeaderBuilt(d)'
    BY <1>1, <1>5, <2>1 DEF HeaderBuilt, ScriptPc, SameHead
  <2>3. CallsBuilt(d)'
    BY <1>1, <1>5 DEF CallsBuilt, SameHead
  <2>4. ReadingBuilt(d)' /\ ScanBuilt(d)'
    BY <1>5 DEF ReadingBuilt, ScanBuilt
  <2>5. QED
    BY <2>2, <2>3, <2>4
<1>6. CASE d.type = "TRANSFER"
  <2>1. /\ TakesTransfer(tx, tx', gas[1], gas[0],
                         transfer[3], transfer[2], transfer[1], transfer[0])
        /\ pc' = "done" /\ status' = "PARSING_OK"
    BY <1>1, <1>6 DEF SetFields, Return, TakesTransfer
  <2>2. /\ Says(raw, transfer[3], d.args[1]) /\ Says(raw, transfer[2], d.args[2])
        /\ Says(raw, transfer[1], d.args[3]) /\ Says(raw, transfer[0], d.args[4])
    <3>1. Main(d) = "transfer_tokens" /\ ArgsOf(d, "transfer_tokens") = d.args
          /\ Len(d.args) = 4
      BY <1>3, <1>6 DEF Main, ArgsOf
    <3>2. SaysCall(raw, calls["transfer_tokens"], d, "transfer_tokens")
      BY <1>2, <3>1
    <3>3. QED
      BY <3>1, <3>2, FourArgs
  <2> HIDE DEF gas, transfer
  <2>3. /\ tx'.gas_price = gas[1] /\ tx'.gas_limit = gas[0]
        /\ tx'.from = transfer[3] /\ tx'.to = transfer[2]
        /\ tx'.token = transfer[1] /\ tx'.value = transfer[0]
        /\ SameHead(tx, tx')
    BY <1>1, <2>1, TransferSet
  <2>4. FieldsSet(raw, tx', d)
    BY <1>4, <1>6, <2>2, <2>3 DEF FieldsSet
  <2>5. FieldsBuilt(d)'
    BY <1>1, <1>6, <2>1, <2>4 DEF FieldsBuilt
  <2>6. QED
    BY <1>1, <1>5, <2>1, <2>3, <2>5 DEF BuiltFor
<1>7. CASE d.type = "CUSTOM"
  <2> DEFINE n == Len(d.args)
  <2>1. /\ TakesCustom(tx, tx', gas[1], gas[0], gas[3], custom.name, custom.method)
        /\ pc' = "join" /\ ix' = custom.args_len - 1
    BY <1>1, <1>7 DEF SetFields, TakesCustom
  <2>2. /\ Says(raw, custom.name, d.name) /\ Says(raw, custom.method, d.method)
        /\ custom.args_len = n
    BY <1>2, <1>7 DEF Main, SaysCall, ArgsOf, MethodOf, NameOf
  <2> HIDE DEF gas, custom
  <2>3. /\ tx'.gas_price = gas[1] /\ tx'.gas_limit = gas[0]
        /\ tx'.from = gas[3] /\ tx'.name = custom.name /\ tx'.method = custom.method
        /\ SameHead(tx, tx')
    BY <1>1, <2>1, CustomSet
  <2>4. FieldsSet(raw, tx', d)
    BY <1>4, <1>7, <2>2, <2>3 DEF FieldsSet
  <2>5. /\ ix' < n /\ (n > 0 => ix' >= 0) /\ n - (ix' + 1) = 0
    <3>1. n \in Nat
      BY <1>3, ArgTypes
    <3>2. \A m \in Nat : m - 1 < m /\ (m > 0 => m - 1 >= 0) /\ m - ((m - 1) + 1) = 0
      OBVIOUS
    <3> HIDE DEF n
    <3>3. QED
      BY <2>1, <2>2, <3>1, <3>2
  <2>6. joined' = ListedSoFar(d.args, 0) /\ Len(joined') <= OUTPUT_LEN - 2
    BY <1>1, Bytes0 DEF ListedSoFar, OUTPUT_LEN
  <2>7. FieldsBuilt(d)'
    BY <1>1, <1>7, <2>1, <2>4, <2>5, <2>6 DEF FieldsBuilt
  <2>8. QED
    BY <1>1, <1>5, <2>1, <2>3, <2>7 DEF BuiltFor
<1>8. QED
  BY <1>3, <1>6, <1>7

(* The first bytes of a slice that says a text are those of the text.      *)
LEMMA TextStarts ==
  ASSUME raw \in Bytes, NEW f \in Slice, NEW t \in Bytes, Says(raw, f, t),
         NEW m \in Nat, m <= Len(t)
  PROVE  LET u == Text([f EXCEPT !.len = m])
         IN  /\ u \in Bytes /\ Len(u) = m /\ \A i \in 1 .. m : u[i] = t[i]
             /\ m = Len(t) => u = t
<1> DEFINE g == [f EXCEPT !.len = m]
           u == Text(g)
<1>1. g \in Slice /\ g.at = f.at /\ g.len = m /\ f.at \in Nat /\ Len(t) \in Nat
  BY LenProperties DEF Slice, Bytes
<1> HIDE DEF g
<1>2. u \in Bytes /\ Len(u) = m
  BY <1>1, TextType DEF Bytes
<1>3. Stands(f.at, t)
  BY DEF Says, Holds, Stands
<1>4. ASSUME NEW i \in 1 .. m
      PROVE  u[i] = t[i]
  <2>1. i \in 1 .. Len(t)
    BY <1>1
  <2>2. Byte(f.at + i - 1) = t[i]
    BY <1>1, <1>3, <2>1, StandsByte
  <2>3. u[i] = Byte(f.at + i - 1)
    BY <1>1 DEF Text
  <2>4. QED
    BY <2>2, <2>3
<1> HIDE DEF u
<1>5. m = Len(t) => u = t
  BY <1>2, <1>4, SeqEqual DEF Bytes
<1>6. QED
  BY <1>2, <1>4, <1>5 DEF u, g

(* What is listed once u stands behind j: all of argument k, or what of it *)
(* there is room for.                                                      *)
AllOfArg(args, k, j, u) ==
  /\ j \o u = Listing(args)[k] /\ Len(j \o u) \in Nat /\ Len(j \o u) < OUTPUT_LEN - 2
  /\ Append(j \o u, COMMA) = ListedSoFar(args, k)
  /\ Len(Append(j \o u, COMMA)) \in Nat /\ Len(Append(j \o u, COMMA)) <= OUTPUT_LEN - 2

SomeOfArg(args, k, j, u) ==
  /\ ListedAsFits(Append(j \o u, COMMA), args) \/ k = Len(args)
  /\ ListedAsFits(j \o u, args) \/ k # Len(args)
  /\ Len(j \o u) = OUTPUT_LEN - 2 /\ Len(Append(j \o u, COMMA)) = OUTPUT_LEN - 1

(* An argument that fits is listed.                                        *)
LEMMA ArgFits ==
  ASSUME NEW args \in ArgLists, NEW k \in 1 .. Len(args), NEW j, j = ListedSoFar(args, k - 1),
         NEW m, m = Len(args[k]), Len(j) + m < OUTPUT_LEN - 2,
         NEW u, u = args[k]
  PROVE  AllOfArg(args, k, j, u)
<1>1. k \in 0 .. Len(args) /\ k > 0
  BY ArgTypes
<1>2. j \o u = Listing(args)[k] /\ Len(Listing(args)[k]) = Len(j) + m
  BY ListedNext
<1>3. /\ j \o u \in Bytes /\ Len(j \o u) \in Nat /\ ListedSoFar(args, k) \in Bytes
      /\ Len(ListedSoFar(args, k)) = Len(j \o u) + 1
  BY <1>1, <1>2, ListingTypes
<1>4. Append(j \o u, COMMA) = ListedSoFar(args, k)
  BY <1>2, <1>3, CommaType, ListedNext
<1>5. Len(j \o u) < OUTPUT_LEN - 2
  BY <1>2
<1>6. Len(j \o u) + 1 <= OUTPUT_LEN - 2 /\ Len(j \o u) + 1 \in Nat
  <2>1. \A n \in Nat : n < OUTPUT_LEN - 2 => n + 1 <= OUTPUT_LEN - 2 /\ n + 1 \in Nat
    BY DEF OUTPUT_LEN
  <2>2. QED
    BY <1>3, <1>5, <2>1
<1>7. QED
  BY <1>2, <1>3, <1>4, <1>5, <1>6 DEF AllOfArg

(* An argument that does not fit is cut where the room ends.               *)
LEMMA ArgCut ==
  ASSUME NEW args \in ArgLists, NEW k \in 1 .. Len(args), NEW j, j = ListedSoFar(args, k - 1),
         NEW m \in Nat, m <= Len(args[k]), Len(j) + m = OUTPUT_LEN - 2,
         NEW u \in Bytes, Len(u) = m, \A i \in 1 .. m : u[i] = args[k][i],
         m = Len(args[k]) => u = args[k]
  PROVE  SomeOfArg(args, k, j, u)
<1> DEFINE l == Listing(args)[k]
           all == Listed(args)
           a == args[k]
           t == j \o u
           tc == Append(t, COMMA)
           max == OUTPUT_LEN - 2
<1>1. /\ Len(args) \in Nat /\ k \in 0 .. Len(args) /\ k - 1 \in 0 .. Len(args)
      /\ Len(args) \in 0 .. Len(args) /\ a \in Bytes /\ Len(a) \in Nat
  BY ArgTypes, TextTypes
<1>2. /\ l = j \o a /\ Len(l) = Len(j) + Len(a)
      /\ l \in Bytes /\ Len(l) \in Nat /\ j \in Bytes /\ Len(j) \in Nat
      /\ all \in Bytes /\ Len(all) \in Nat
  <2>1. l = j \o a /\ Len(l) = Len(j) + Len(a)
    BY ListedNext
  <2>2. l \in Bytes /\ Len(l) \in Nat /\ j \in Bytes
    BY <1>1, ListingTypes
  <2>3. all \in Bytes /\ Len(all) \in Nat
    BY <1>1, ListingTypes DEF Listed
  <2>4. QED
    BY <2>1, <2>2, <2>3, LenProperties DEF Bytes
<1>3. k # Len(args) => Len(l) < Len(all) /\ Begins(l, all)
  BY ListingGrows
<1>4. k = Len(args) => l = all
  BY DEF Listed
<1>5. max \in Nat /\ max + 1 = OUTPUT_LEN - 1
  BY DEF OUTPUT_LEN
<1> DEFINE Fits(x) == IF Len(all) <= max THEN x = all
                                        ELSE SubSeq(x, 1, max) = SubSeq(all, 1, max)
<1>0. \A x : Fits(x) => ListedAsFits(x, args)
  BY DEF ListedAsFits
<1> HIDE DEF l, all, a, max
<1>6. /\ t \in Bytes /\ Len(t) = max
      /\ \A i \in 1 .. Len(j) : t[i] = j[i]
      /\ \A i \in 1 .. m : t[Len(j) + i] = u[i]
  <2>1. /\ t \in Bytes /\ Len(t) = Len(j) + Len(u)
        /\ \A i \in 1 .. Len(j) : t[i] = j[i]
        /\ \A i \in 1 .. Len(u) : t[Len(j) + i] = u[i]
    BY <1>2, BytesConcat
  <2>2. QED
    BY <2>1 DEF max
<1> HIDE DEF t
<1>7. /\ \A i \in 1 .. Len(j) : l[i] = j[i]
      /\ \A i \in 1 .. Len(a) : l[Len(j) + i] = a[i]
  BY <1>1, <1>2, BytesConcat
<1>8. Len(j) + m = max /\ max <= Len(l) /\ m <= Len(a)
  <2>1. Len(j) + m = max /\ m <= Len(a)
    BY DEF max, a
  <2>2. QED
    BY <1>1, <1>2, <2>1
<1>9. \A i \in 1 .. max : t[i] = l[i]
  <2> SUFFICES ASSUME NEW i \in 1 .. max PROVE t[i] = l[i]
    OBVIOUS
  <2>1. CASE i <= Len(j)
    <3>1. i \in 1 .. Len(j)
      BY <1>2, <2>1
    <3>2. QED
      BY <1>6, <1>7, <3>1
  <2>2. CASE ~(i <= Len(j))
    <3>1. i - Len(j) \in 1 .. m /\ Len(j) + (i - Len(j)) = i
      BY <1>2, <1>5, <1>8, <2>2
    <3>2. i - Len(j) \in 1 .. Len(a)
      BY <1>1, <1>8, <3>1
    <3>3. t[i] = u[i - Len(j)] /\ l[i] = a[i - Len(j)]
      BY <1>6, <1>7, <3>1, <3>2
    <3>4. u[i - Len(j)] = a[i - Len(j)]
      BY <3>1 DEF a
    <3>5. QED
      BY <3>3, <3>4
  <2>3. QED
    BY <2>1, <2>2
<1>10. /\ tc \in Bytes /\ Len(tc) = max + 1 /\ \A i \in 1 .. max : tc[i] = t[i]
  <2>1. /\ tc = t \o <<COMMA>> /\ <<COMMA>> \in Bytes /\ Len(<<COMMA>>) = 1
    BY <1>6, CommaType
  <2>2. /\ t \o <<COMMA>> \in Bytes /\ Len(t \o <<COMMA>>) = Len(t) + Len(<<COMMA>>)
        /\ \A i \in 1 .. Len(t) : (t \o <<COMMA>>)[i] = t[i]
    BY <1>6, <2>1, BytesConcat
  <2> HIDE DEF tc
  <2>3. QED
    BY <1>6, <2>1, <2>2
<1> HIDE DEF tc
<1>11. CASE k = Len(args)
  <2>1. l = all
    BY <1>4, <1>11
  <2>2. Fits(t)
    <3>1. CASE Len(all) <= max
      <4>1. m = Len(a)
        BY <1>1, <1>2, <1>8, <2>1, <3>1
      <4>2. t = all
        BY <1>2, <2>1, <4>1 DEF t, a
      <4>3. QED
        BY <3>1, <4>2
    <3>2. CASE ~(Len(all) <= max)
      <4>1. max <= Len(t) /\ max <= Len(all) /\ \A i \in 1 .. max : t[i] = all[i]
        BY <1>5, <1>6, <1>8, <1>9, <2>1
      <4>2. SubSeq(t, 1, max) = SubSeq(all, 1, max)
        BY <1>2, <1>5, <1>6, <4>1, SameBeginning
      <4>3. QED
        BY <3>2, <4>2
    <3>3. QED
      BY <3>1, <3>2
  <2>3. ListedAsFits(t, args)
    BY <1>0, <2>2
  <2>4. QED
    BY <1>5, <1>6, <1>10, <1>11, <2>3 DEF t, tc, max, SomeOfArg
<1>12. CASE k # Len(args)
  <2>1. Len(l) < Len(all) /\ \A i \in 1 .. Len(l) : all[i] = l[i]
    BY <1>3, <1>12 DEF Begins
  <2>2. max <= Len(all) /\ ~(Len(all) <= max) /\ max <= Len(tc)
    BY <1>2, <1>5, <1>8, <1>10, <2>1
  <2>3. \A i \in 1 .. max : tc[i] = all[i]
    <3>1. \A i \in 1 .. max : i \in 1 .. Len(l)
      BY <1>2, <1>5, <1>8
    <3>2. QED
      BY <1>9, <1>10, <2>1, <3>1
  <2>4. SubSeq(tc, 1, max) = SubSeq(all, 1, max)
    BY <1>2, <1>5, <1>10, <2>2, <2>3, SameBeginning
  <2>5. ListedAsFits(tc, args)
    BY <1>0, <2>2, <2>4
  <2>6. QED
    BY <1>5, <1>6, <1>10, <1>12, <2>5 DEF t, tc, max, SomeOfArg
<1>13. QED
  BY <1>11, <1>12 DEF t, tc

(* The arguments are joined: all that is left of the invariant by then.    *)
LEMMA JoinLeft ==
  ASSUME NEW d \in Built, BuiltFor(d), pc = "join", pc' \in {"join", "done"},
         UNCHANGED <<raw, off, tx, call, calls, ignored>>, FieldsBuilt(d)'
  PROVE  BuiltFor(d)'
<1>1. HeaderBuilt(d) /\ CallsBuilt(d) /\ ignored = {}
  BY DEF BuiltFor
<1>2. HeaderBuilt(d)'
  BY <1>1 DEF HeaderBuilt, ScriptPc
<1>3. CallsBuilt(d)'
  BY <1>1 DEF CallsBuilt
<1>4. ReadingBuilt(d)' /\ ScanBuilt(d)'
  BY DEF ReadingBuilt, ScanBuilt
<1>5. QED
  BY <1>1, <1>2, <1>3, <1>4 DEF BuiltFor

LEMMA JoinNothingBuilt ==
  ASSUME Inv, NEW d \in Built, BuiltFor(d), JoinNothing
  PROVE  BuiltFor(d)'
<1>1. /\ pc = "join" /\ ix < 0 /\ pc' = "done" /\ status' = "PARSING_OK" /\ FieldsBuilt(d)
      /\ UNCHANGED <<raw, off, tx, call, calls, ignored, joined>>
  BY DEF JoinNothing, Return, BuiltFor, scriptVars
<1>2. /\ FieldsSet(raw, tx, d) /\ (Len(d.args) > 0 => ix >= 0) /\ ix < Len(d.args)
      /\ joined = ListedSoFar(d.args, Len(d.args) - (ix + 1))
  BY <1>1 DEF FieldsBuilt
<1>3. d.args \in ArgLists /\ Len(d.args) \in Nat /\ ix \in -1 .. 255
  BY BuiltAssumption, ArgTypes DEF Descriptions, Inv, TypeInv
<1>4. Len(d.args) = 0 /\ Len(d.args) - (ix + 1) = 0
  BY <1>1, <1>2, <1>3
<1>5. Listed(d.args) = <<>> /\ joined = <<>>
  BY <1>2, <1>3, <1>4, ListingUnfolds DEF Listed, ListedSoFar
<1>6. ListedAsFits(joined, d.args)
  BY <1>5 DEF ListedAsFits
<1>7. FieldsBuilt(d)'
  BY <1>1, <1>2, <1>6 DEF FieldsBuilt
<1>8. QED
  BY <1>1, <1>7, JoinLeft

LEMMA JoinArgBuilt ==
  ASSUME Inv, NEW d \in Built, raw = Build(d), BuiltFor(d), JoinArg
  PROVE  BuiltFor(d)'
<1> DEFINE n == Len(d.args)
           k == n - ix
           arg == calls["contract_call"].args[ix]
           t == d.args[k]
           remaining == OUTPUT_LEN - Len(joined)
           to_copy == Copied(arg.len, remaining)
           u == Text([arg EXCEPT !.len = to_copy])
           max == OUTPUT_LEN - 2
<1>1. /\ pc = "join" /\ ix >= 0 /\ FieldsBuilt(d) /\ CallsBuilt(d) /\ HeaderBuilt(d)
      /\ UNCHANGED <<raw, off, tx, pushing, soff>>
  BY DEF JoinArg, BuiltFor
<1>2. /\ FieldsSet(raw, tx, d) /\ d.type = "CUSTOM" /\ ix < n
      /\ joined = ListedSoFar(d.args, n - (ix + 1)) /\ Len(joined) <= max
      /\ call = "spend_gas"
  BY <1>1 DEF FieldsBuilt, CallsBuilt
<1>3. /\ d.args \in ArgLists /\ n \in 0 .. 4 /\ ix \in 0 .. 3 /\ raw \in Bytes
      /\ joined \in Bytes /\ Len(joined) \in Nat /\ Len(raw) \in Nat
  <2>1. d.args \in ArgLists
    BY BuiltAssumption DEF Descriptions
  <2>2. n \in Nat /\ n <= MAX_ARGS_LEN
    BY <2>1, ArgTypes
  <2>3. \A m \in Nat : m <= MAX_ARGS_LEN => m \in 0 .. 4
    BY DEF MAX_ARGS_LEN
  <2>4. ix \in Int
    BY DEF Inv, TypeInv
  <2>5. n \in 0 .. 4 /\ ix \in 0 .. 3
    <3>1. n \in 0 .. 4 /\ ix >= 0 /\ ix < n
      BY <1>1, <1>2, <2>2, <2>3
    <3>2. \A a \in 0 .. 4 : \A b \in Int : b >= 0 /\ b < a => b \in 0 .. 3
      OBVIOUS
    <3> HIDE DEF n
    <3>3. QED
      BY <2>4, <3>1, <3>2
  <2>6. raw \in Bytes /\ joined \in Bytes
    BY DEF Inv, TypeInv, Bytes
  <2>7. QED
    BY <2>1, <2>5, <2>6, LenProperties DEF Bytes
<1>4. k \in 1 .. n /\ n - (ix + 1) = k - 1 /\ (k = n <=> ix = 0) /\ k \in 1 .. Len(d.args)
  BY <1>1, <1>2, <1>3
<1>5. arg \in Slice /\ Says(raw, arg, t) /\ t \in Texts
  <2>1. SaysCall(raw, calls["contract_call"], d, "contract_call")
    BY <1>1, <1>2 DEF CallsBuilt, Main
  <2>2. Says(raw, arg, t)
    <3>1. ArgsOf(d, "contract_call") = d.args
      BY DEF ArgsOf
    <3>2. ix \in 0 .. n - 1
      BY <1>2, <1>3
    <3>3. QED
      BY <2>1, <3>1, <3>2 DEF SaysCall, SaysArgs
  <2>3. ix \in 0 .. MAX_ARGS_LEN - 1
    BY <1>3 DEF MAX_ARGS_LEN
  <2>4. calls["contract_call"] \in CallType
    BY DEF Inv, TypeInv, Calls
  <2>5. QED
    BY <1>3, <1>4, <2>2, <2>3, <2>4, ArgTypes DEF CallType
<1>6. /\ arg.at \in Nat /\ arg.len = Len(t) /\ Len(t) \in Nat /\ t \in Bytes
      /\ arg.at + Len(t) <= Len(raw)
  BY <1>5, TextTypes DEF Says, Holds, Slice
<1> HIDE DEF k, arg, t, remaining, max
<1>7. remaining = max + 2 - Len(joined) /\ max \in Nat /\ max + 2 = OUTPUT_LEN
  BY <1>2, <1>3 DEF remaining, max, OUTPUT_LEN
<1>8. /\ to_copy \in Nat /\ to_copy <= Len(t)
      /\ \/ to_copy = Len(t) /\ Len(joined) + to_copy < max
         \/ Len(joined) + to_copy = max
  <2>1. to_copy = IF Len(t) >= remaining - 2 THEN remaining - 2 ELSE Len(t)
    BY <1>6 DEF Copied
  <2>2. remaining - 2 \in Nat /\ Len(joined) + (remaining - 2) = max
    <3>1. \A l, x \in Nat : l <= x => (x + 2 - l) - 2 \in Nat /\ l + ((x + 2 - l) - 2) = x
      OBVIOUS
    <3>2. Len(joined) <= max
      BY <1>2 DEF max
    <3>3. QED
      BY <1>3, <1>7, <3>1, <3>2
  <2> HIDE DEF to_copy
  <2>3. CASE Len(t) >= remaining - 2
    BY <2>1, <2>2, <2>3
  <2>4. CASE ~(Len(t) >= remaining - 2)
    BY <1>3, <1>6, <1>7, <2>1, <2>2, <2>4
  <2>5. QED
    BY <2>3, <2>4
<1> HIDE DEF to_copy
<1>9. u \in Bytes /\ Len(u) = to_copy /\ (\A i \in 1 .. to_copy : u[i] = t[i])
      /\ (to_copy = Len(t) => u = t)
  BY <1>3, <1>5, <1>6, <1>8, TextStarts
<1> HIDE DEF u
<1>10. /\ joined' = IF ix > 0 THEN Append(joined \o u, COMMA) ELSE joined \o u
       /\ IF ix > 0 /\ OUTPUT_LEN - Len(joined') > 1
          THEN ix' = ix - 1 /\ UNCHANGED <<pc, status>>
          ELSE Return("PARSING_OK") /\ UNCHANGED ix
       /\ UNCHANGED <<call, calls, scan, ignored>>
  <2>1. ~(ix >= MAX_ARGS_LEN)
    BY <1>3 DEF MAX_ARGS_LEN
  <2>2. ~(arg.at + to_copy > MAX_TRANSACTION_LEN)
    <3>1. Len(raw) <= MAX_TRANSACTION_LEN
      BY BuiltAssumption
    <3>2. arg.at + to_copy <= Len(raw) /\ arg.at + to_copy \in Nat
      BY <1>3, <1>6, <1>8
    <3>3. MAX_TRANSACTION_LEN \in Nat
      BY DEF MAX_TRANSACTION_LEN
    <3>4. QED
      BY <1>3, <3>1, <3>2, <3>3
  <2>3. QED
    BY <2>1, <2>2 DEF JoinArg, u, to_copy, remaining, arg
<1>11. CASE to_copy = Len(t) /\ Len(joined) + to_copy < max
  <2>1. /\ joined \o u = Listing(d.args)[k]
        /\ Len(joined \o u) \in Nat /\ Len(joined \o u) < max
        /\ Append(joined \o u, COMMA) = ListedSoFar(d.args, k)
        /\ Len(Append(joined \o u, COMMA)) \in Nat /\ Len(Append(joined \o u, COMMA)) <= max
    <3>1. joined = ListedSoFar(d.args, k - 1)
      BY <1>2, <1>4
    <3>2. u = d.args[k] /\ to_copy = Len(d.args[k])
      BY <1>9, <1>11 DEF t
    <3>3. Len(joined) + to_copy < OUTPUT_LEN - 2
      BY <1>11 DEF max
    <3>4. AllOfArg(d.args, k, joined, u)
      BY <1>3, <1>4, <3>1, <3>2, <3>3, ArgFits
    <3>5. QED
      BY <3>4 DEF AllOfArg, max
  <2>2. CASE ix > 0
    <3>1. joined' = ListedSoFar(d.args, k) /\ Len(joined') <= max /\ Len(joined') \in Nat
      BY <1>10, <2>1, <2>2
    <3>2. OUTPUT_LEN - Len(joined') > 1
      BY <1>7, <3>1
    <3>3. ix' = ix - 1 /\ pc' = "join"
      BY <1>1, <1>10, <2>2, <3>2
    <3>4. ix' >= 0 /\ ix' < n /\ n - (ix' + 1) = k
      BY <1>2, <1>3, <2>2, <3>3 DEF k
    <3>5. FieldsBuilt(d)'
      BY <1>1, <1>2, <3>1, <3>3, <3>4 DEF FieldsBuilt, max
    <3>6. QED
      BY <1>1, <1>10, <3>3, <3>5, JoinLeft
  <2>3. CASE ~(ix > 0)
    <3>1. joined' = joined \o u /\ pc' = "done" /\ status' = "PARSING_OK"
      BY <1>10, <2>3 DEF Return
    <3>2. k = Len(d.args)
      BY <1>3, <1>4, <2>3
    <3>3. joined' = Listed(d.args) /\ Len(joined') <= max
      BY <1>7, <2>1, <3>1, <3>2 DEF Listed
    <3>4. ListedAsFits(joined', d.args)
      BY <3>3 DEF ListedAsFits, max
    <3>5. FieldsBuilt(d)'
      BY <1>1, <1>2, <3>1, <3>4 DEF FieldsBuilt
    <3>6. QED
      BY <1>1, <1>10, <3>1, <3>5, JoinLeft
  <2>4. QED
    BY <2>2, <2>3
<1>12. CASE Len(joined) + to_copy = max
  <2>1. /\ ListedAsFits(Append(joined \o u, COMMA), d.args) \/ k = Len(d.args)
        /\ ListedAsFits(joined \o u, d.args) \/ k # Len(d.args)
        /\ Len(joined \o u) = max /\ Len(Append(joined \o u, COMMA)) = OUTPUT_LEN - 1
    <3>1. joined = ListedSoFar(d.args, k - 1)
      BY <1>2, <1>4
    <3>2. to_copy <= Len(d.args[k]) /\ (to_copy = Len(d.args[k]) => u = d.args[k])
      BY <1>8, <1>9 DEF t
    <3>3. \A i \in 1 .. to_copy : u[i] = d.args[k][i]
      BY <1>9 DEF t
    <3>4. Len(joined) + to_copy = OUTPUT_LEN - 2
      BY <1>12 DEF max
    <3>5. SomeOfArg(d.args, k, joined, u)
      BY <1>3, <1>4, <1>8, <1>9, <3>1, <3>2, <3>3, <3>4, ArgCut
    <3>6. QED
      BY <3>5 DEF SomeOfArg, max
  <2>2. ListedAsFits(joined', d.args)
    BY <1>3, <1>4, <1>10, <2>1
  <2>3. ~(ix > 0 /\ OUTPUT_LEN - Len(joined') > 1)
    <3>1. CASE ix > 0
      <4>1. Len(joined') = OUTPUT_LEN - 1
        BY <1>10, <2>1, <3>1
      <4>2. QED
        BY <4>1 DEF OUTPUT_LEN
    <3>2. QED
      BY <3>1
  <2>4. pc' = "done" /\ status' = "PARSING_OK"
    BY <1>10, <2>3 DEF Return
  <2>5. FieldsBuilt(d)'
    BY <1>1, <1>2, <2>2, <2>4 DEF FieldsBuilt
  <2>6. QED
    BY <1>1, <1>10, <2>4, <2>5, JoinLeft
<1>13. QED
  BY <1>8, <1>11, <1>12

-----------------------------------------------------------------------------
(* Every step.                                                             *)
LEMMA RawKept == [Next]_vars => raw' = raw
<1> SUFFICES ASSUME [Next]_vars PROVE raw' = raw
  OBVIOUS
<1>1. CASE ScriptStep
  <2>1. CASE ReadLoad \/ ReadPush \/ ReadCtx
    BY <2>1 DEF ReadLoad, ReadPush, ReadCtx
  <2>2. CASE ReadSwitch \/ ReadExtcall \/ ReadEnd
    BY <2>2 DEF ReadSwitch, ReadExtcall, ReadEnd, ReadLast
  <2>3. CASE ScanLoad \/ ScanPush \/ ScanOther
    BY <2>3 DEF ScanLoad, ScanPush, ScanOther, ScanOn, Scanned
  <2>4. CASE ScanCtx \/ ScanExtcall \/ ScanEnd
    BY <2>4 DEF ScanCtx, ScanExtcall, ScanEnd, Scanned
  <2>5. QED
    BY <1>1, <2>1, <2>2, <2>3, <2>4 DEF ScriptStep
<1>2. CASE TransactionStep
  <2>1. CASE ReadNexus \/ ReadChain \/ ReadScript \/ ReadPayload
    BY <2>1 DEF ReadNexus, ReadChain, ReadScript, ReadPayload, Field
  <2>2. CASE CheckLength \/ ReadExpiration \/ SetFields
    BY <2>2 DEF CheckLength, ReadExpiration, SetFields
  <2>3. CASE JoinArg \/ JoinNothing
    BY <2>3 DEF JoinArg, JoinNothing
  <2>4. QED
    BY <1>2, <2>1, <2>2, <2>3 DEF TransactionStep
<1>3. CASE Returned \/ UNCHANGED vars
  BY <1>3 DEF Returned, vars
<1>4. QED
  BY <1>1, <1>2, <1>3 DEF Next

LEMMA StutterBuilt ==
  ASSUME NEW d \in Built, BuiltFor(d), UNCHANGED vars
  PROVE  BuiltFor(d)'
<1>1. /\ UNCHANGED <<raw, pc, status, off, tx, joined>>
      /\ UNCHANGED <<call, calls, ix, pushing, soff, scan, ignored>>
  BY DEF vars, scriptVars
<1>2. HeaderBuilt(d)' /\ CallsBuilt(d)' /\ FieldsBuilt(d)'
  BY <1>1 DEF BuiltFor, HeaderBuilt, CallsBuilt, FieldsBuilt
<1>3. ReadingBuilt(d)'
  BY <1>1 DEF BuiltFor, ReadingBuilt
<1>4. ScanBuilt(d)'
  BY <1>1 DEF BuiltFor, ScanBuilt
<1>5. QED
  BY <1>1, <1>2, <1>3, <1>4 DEF BuiltFor

LEMMA StepBuilt ==
  ASSUME Inv, [Next]_vars, NEW d \in Built, raw = Build(d), BuiltFor(d)
  PROVE  BuiltFor(d)'
<1>1. CASE ReadLoad
  BY <1>1, ReadLoadBuilt
<1>2. CASE ReadPush
  BY <1>2, ReadPushBuilt
<1>3. CASE ReadCtx
  BY <1>3, ReadCtxBuilt
<1>4. CASE ReadSwitch \/ ReadExtcall \/ ReadEnd
  BY <1>4, ReadLastBuilt
<1>5. CASE ScanLoad \/ ScanPush \/ ScanCtx \/ ScanExtcall \/ ScanOther \/ ScanEnd
  BY <1>5, LookAheadBuilt
<1>6. CASE CheckLength
  BY <1>6, LengthBuilt
<1>7. CASE ReadNexus
  BY <1>7, NexusBuilt
<1>8. CASE ReadChain
  BY <1>8, ChainBuilt
<1>9. CASE ReadScript
  BY <1>9, ScriptBuilt
<1>10. CASE ReadExpiration
  BY <1>10, ExpirationBuilt
<1>11. CASE ReadPayload
  BY <1>11, PayloadBuilt
<1>12. CASE SetFields
  BY <1>12, SetFieldsBuilt
<1>13. CASE JoinArg
  BY <1>13, JoinArgBuilt
<1>14. CASE JoinNothing
  BY <1>14, JoinNothingBuilt
<1>15. CASE Returned \/ UNCHANGED vars
  BY <1>15, StutterBuilt DEF Returned
<1>16. QED
  BY <1>1, <1>2, <1>3, <1>4, <1>5, <1>6, <1>7, <1>8, <1>9, <1>10, <1>11, <1>12,
     <1>13, <1>14, <1>15 DEF Next, ScriptStep, TransactionStep

LEMMA BuiltInvariance == Spec => []BuiltInv
<1>1. Init => BuiltInv
  BY StartBuilt DEF BuiltInv
<1>2. Inv /\ BuiltInv /\ [Next]_vars => BuiltInv'
  <2> SUFFICES ASSUME Inv, BuiltInv, [Next]_vars PROVE BuiltInv'
    OBVIOUS
  <2>1. raw' = raw
    BY RawKept
  <2>2. ASSUME NEW d \in Built, raw' = Build(d)
        PROVE  BuiltFor(d)'
    <3>1. raw = Build(d)
      BY <2>1, <2>2
    <3>2. BuiltFor(d)
      BY <3>1 DEF BuiltInv
    <3>3. QED
      BY <3>1, <3>2, StepBuilt
  <2>3. QED
    BY <2>2 DEF BuiltInv
<1>3. QED
  BY <1>1, <1>2, Invariance, PTL DEF Spec

-----------------------------------------------------------------------------
(* What the bytes say is the text that is displayed.                       *)
LEMMA SaysText ==
  ASSUME raw \in Bytes, NEW f \in Slice, NEW t \in Bytes, Says(raw, f, t)
  PROVE  Text(f) = t
<1>1. Stands(f.at, t) /\ Len(t) = f.len
  BY DEF Says, Holds, Stands
<1>2. QED
  BY <1>1, StandsText

(* A list is the sequence of its elements.                                 *)
LEMMA FourOfList ==
  ASSUME NEW args \in ArgLists, Len(args) = 4
  PROVE  args = <<args[1], args[2], args[3], args[4]>>
<1>1. args \in Seq(Texts)
  BY DEF ArgLists
<1> DEFINE l == <<args[1], args[2], args[3], args[4]>>
<1>2. \A i \in 1 .. 4 : args[i] \in Texts
  BY <1>1, ElementOfSeq
<1>3. l \in Seq(Texts) /\ Len(l) = 4
  BY <1>2
<1>4. \A i \in 1 .. 4 : l[i] = args[i]
  OBVIOUS
<1> HIDE DEF l
<1>5. args = l
  BY <1>1, <1>3, <1>4, SeqEqual
<1>6. QED
  BY <1>5 DEF l

(* For every transaction that a wallet may describe, whatever its texts    *)
(* contain, transaction_deserialize ends with the fields that the wallet   *)
(* described: no text is taken for an instruction of the script, no call   *)
(* for another one, and the arguments of a custom call are listed as far   *)
(* as output_args has room for them.                                       *)
THEOREM BuiltIsParsed == Spec => []ParsesWhatWasBuilt
<1>1. Inv /\ BuiltInv => ParsesWhatWasBuilt
  <2> SUFFICES ASSUME Inv, BuiltInv, Ended, NEW d \in Built, raw = Build(d)
               PROVE  /\ status = "PARSING_OK" /\ ignored = {}
                      /\ tx.type = d.type
                      /\ <<d.nexus, d.chain, d.payload>>
                           = <<Text(tx.nexus), Text(tx.chain), Text(tx.payload)>>
                      /\ <<d.gas[3], d.gas[4]>> = <<Text(tx.gas_price), Text(tx.gas_limit)>>
                      /\ tx.type = "TRANSFER" =>
                           d.args = <<Text(tx.from), Text(tx.to), Text(tx.token), Text(tx.value)>>
                      /\ tx.type = "CUSTOM" =>
                           /\ <<d.gas[1], d.name, d.method>>
                                = <<Text(tx.from), Text(tx.name), Text(tx.method)>>
                           /\ IF Len(Listed(d.args)) <= OUTPUT_LEN - 2
                              THEN joined = Listed(d.args)
                              ELSE SubSeq(joined, 1, OUTPUT_LEN - 2)
                                     = SubSeq(Listed(d.args), 1, OUTPUT_LEN - 2)
    BY DEF ParsesWhatWasBuilt
  <2>1. BuiltFor(d)
    BY DEF BuiltInv
  <2>2. /\ pc = "done" /\ ignored = {}
        /\ HeaderBuilt(d) /\ CallsBuilt(d) /\ FieldsBuilt(d)
    BY <2>1 DEF BuiltFor, Ended
  <2>3. status = "PARSING_OK" /\ FieldsSet(raw, tx, d)
        /\ (d.type = "CUSTOM" => ListedAsFits(joined, d.args))
    BY <2>2 DEF FieldsBuilt
  <2>4. tx.type = d.type
    BY <2>2 DEF CallsBuilt
  <2>5. raw \in Bytes /\ tx \in TxType
    BY DEF Inv, TypeInv, Bytes
  <2>6. /\ tx.nexus \in Slice /\ tx.chain \in Slice /\ tx.payload \in Slice
        /\ tx.from \in Slice /\ tx.to \in Slice /\ tx.token \in Slice /\ tx.value \in Slice
        /\ tx.gas_limit \in Slice /\ tx.gas_price \in Slice
        /\ tx.method \in Slice /\ tx.name \in Slice
    BY <2>5 DEF TxType
  <2>7. d \in Descriptions /\ Len(d.gas) = 4 /\ (d.type = "TRANSFER" => Len(d.args) = 4)
    BY BuiltAssumption
  <2>8. /\ d.nexus \in Bytes /\ d.chain \in Bytes /\ d.payload \in Bytes
        /\ d.gas \in ArgLists /\ d.args \in ArgLists
        /\ d.name \in Bytes /\ d.method \in Bytes
    BY <2>7 DEF Descriptions, Fields, Texts
  <2>9. \A args \in ArgLists : Len(args) = 4 =>
          args[1] \in Bytes /\ args[2] \in Bytes /\ args[3] \in Bytes /\ args[4] \in Bytes
    <3> SUFFICES ASSUME NEW args \in ArgLists, Len(args) = 4, NEW i \in 1 .. 4
                 PROVE  args[i] \in Bytes
      OBVIOUS
    <3>1. args[i] \in Texts
      BY ArgTypes
    <3>2. QED
      BY <3>1, TextTypes
  <2>10. Text(tx.nexus) = d.nexus /\ Text(tx.chain) = d.chain /\ Text(tx.payload) = d.payload
    <3>1. /\ Says(raw, tx.nexus, d.nexus) /\ Says(raw, tx.chain, d.chain)
          /\ Says(raw, tx.payload, d.payload)
      BY <2>2 DEF HeaderBuilt
    <3>2. QED
      BY <2>5, <2>6, <2>8, <3>1, SaysText
  <2>11. Text(tx.gas_price) = d.gas[3] /\ Text(tx.gas_limit) = d.gas[4]
    <3>1. Says(raw, tx.gas_price, d.gas[3]) /\ Says(raw, tx.gas_limit, d.gas[4])
      BY <2>3 DEF FieldsSet
    <3>2. d.gas[3] \in Bytes /\ d.gas[4] \in Bytes
      BY <2>7, <2>8, <2>9
    <3>3. QED
      BY <2>5, <2>6, <3>1, <3>2, SaysText
  <2>12. ASSUME d.type = "TRANSFER"
         PROVE  d.args = <<Text(tx.from), Text(tx.to), Text(tx.token), Text(tx.value)>>
    <3>1. /\ Says(raw, tx.from, d.args[1]) /\ Says(raw, tx.to, d.args[2])
          /\ Says(raw, tx.token, d.args[3]) /\ Says(raw, tx.value, d.args[4])
      BY <2>3, <2>12 DEF FieldsSet
    <3>2. /\ d.args[1] \in Bytes /\ d.args[2] \in Bytes
          /\ d.args[3] \in Bytes /\ d.args[4] \in Bytes
      BY <2>7, <2>8, <2>9, <2>12
    <3>3. Text(tx.from) = d.args[1] /\ Text(tx.to) = d.args[2]
      BY <2>5, <2>6, <3>1, <3>2, SaysText
    <3>4. Text(tx.token) = d.args[3] /\ Text(tx.value) = d.args[4]
      BY <2>5, <2>6, <3>1, <3>2, SaysText
    <3>5. d.args = <<d.args[1], d.args[2], d.args[3], d.args[4]>>
      BY <2>7, <2>8, <2>12, FourOfList
    <3>6. QED
      BY <3>3, <3>4, <3>5
  <2>13. ASSUME d.type = "CUSTOM"
         PROVE  Text(tx.from) = d.gas[1] /\ Text(tx.name) = d.name /\ Text(tx.method) = d.method
    <3>1. /\ Says(raw, tx.from, d.gas[1])
          /\ Says(raw, tx.name, d.name) /\ Says(raw, tx.method, d.method)
      BY <2>3, <2>13 DEF FieldsSet
    <3>2. d.gas[1] \in Bytes
      BY <2>7, <2>8, <2>9
    <3>3. QED
      BY <2>5, <2>6, <2>8, <3>1, <3>2, SaysText
  <2>14. d.type = "CUSTOM" =>
           IF Len(Listed(d.args)) <= OUTPUT_LEN - 2
           THEN joined = Listed(d.args)
           ELSE SubSeq(joined, 1, OUTPUT_LEN - 2) = SubSeq(Listed(d.args), 1, OUTPUT_LEN - 2)
    BY <2>3 DEF ListedAsFits
  <2>15. QED
    BY <2>2, <2>3, <2>4, <2>10, <2>11, <2>12, <2>13, <2>14
<1>2. QED
  BY <1>1, Invariance, BuiltInvariance, PTL
=============================================================================
