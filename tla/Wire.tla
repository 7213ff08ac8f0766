-------------------------------- MODULE Wire --------------------------------
(***************************************************************************)
(* The forms a value takes on its way through the process: the transaction *)
(* a client signs, the text it posts, what the server decodes, the call    *)
(* data built from it, the columns of the row and the Ethereum transaction *)
(* rebuilt from the columns after every reload.                            *)
(*                                                                         *)
(* A byte has two digits.  A character is its byte, so that text and raw   *)
(* bytes can be confused exactly where the code can confuse them: below    *)
(* Base are the digits, X is the letter of the prefix, Other stands for    *)
(* the rest.  An unsigned integer has Width bits.  A word of the call data *)
(* has as many bytes as a hash.                                            *)
(***************************************************************************)
EXTENDS Integers, Sequences, FiniteSets

CONSTANTS
  Base,             \* 16 in the code
  Width,            \* bits of a uint64
  HashLength,       \* bytes of a hash and of a word of the call data
  ProofLength,      \* hashes of a proof
  Rollups,          \* rollup ids
  Roots, Exits,     \* state and exit roots, hashes
  Proofs,           \* proofs clients send, sequences of bytes
  MaxDigits,        \* digits of the longest text tried
  Suggestions,      \* gas prices the node suggests
  Gases,            \* gas estimates
  Limits,           \* settings of EthTxManager.MaxGasPriceLimit, 0 for none
  MarginNum, MarginDen, GasOffset

VARIABLES
  limit,    \* MaxGasPriceLimit of the configuration the process runs with
  stage,    \* where the value is
  tx,       \* the transaction the client signed
  text,     \* what it posted
  got,      \* what the server decoded
  data,     \* the call data built from it
  mem,      \* the row in memory
  cols,     \* the row in state.monitored_txs
  built     \* the Ethereum transaction of the row when it was last stored

vars == <<limit, stage, tx, text, got, data, mem, cols, built>>

X == Base
Other == Base + 1
Prefix == <<0, X>>
Bytes == 0 .. Base * Base - 1
Hashes == [1 .. HashLength -> Bytes]
UInts == 0 .. 2^Width - 1

ASSUME BaseAssumption == Base \in Nat \ {0, 1}

(* A word has room for an unsigned integer. *)
ASSUME WidthAssumption ==
  Width \in Nat \ {0} /\ HashLength \in Nat \ {0} /\ Width <= 2 * HashLength

(* The law of powers: arithmetic the provers do not know. *)
ASSUME PowerAssumption ==
  2^0 = 1 /\ \A k \in 0 .. 2 * HashLength - 1 : 2^(k + 1) = 2 * 2^k

(* A limit and a gas estimate are uint64, a rollup id is smaller. *)
ASSUME RangesAssumption ==
  /\ Rollups \subseteq UInts
  /\ Roots \subseteq Hashes /\ Exits \subseteq Hashes
  /\ Proofs \subseteq Seq(Bytes) /\ ProofLength \in Nat /\ MaxDigits \in Nat
  /\ Suggestions \subseteq Nat /\ Gases \subseteq UInts
  /\ Limits \subseteq UInts /\ MarginNum \in Nat /\ MarginDen \in Nat \ {0}

Txs == [rollup : Rollups, last : UInts, new : UInts, root : Roots, exit : Exits,
        proof : Proofs]

M == INSTANCE MonitoredTx WITH Ids <- {1}, Sigs <- {1}, MaxGasPriceLimit <- 0

Error == [ok |-> FALSE]
Ok(v) == [ok |-> TRUE, val |-> v]

-----------------------------------------------------------------------------
(* Digits and text. *)

DigitStrings(n) == UNION {[1 .. k -> 0 .. Base - 1] : k \in 0 .. n}

IsDigits(s) == \A i \in 1 .. Len(s) : s[i] < Base

(* The number a sequence of digits of base b denotes. *)
Value(s, b) ==
  LET v[i \in 0 .. Len(s)] == IF i = 0 THEN 0 ELSE b * v[i - 1] + s[i]
  IN  v[Len(s)]

(* strings.TrimPrefix(s, "0x") *)
TrimPrefix(s) ==
  IF Len(s) >= 2 /\ SubSeq(s, 1, 2) = Prefix THEN SubSeq(s, 3, Len(s)) ELSE s

(* strconv.AppendUint: the shortest numeral. *)
IsNumeral(d, n) ==
  /\ d # <<>>
  /\ Value(d, Base) = n
  /\ Len(d) = 1 \/ d[1] # 0

Numeral(n) == CHOOSE d \in DigitStrings(Width) : IsNumeral(d, n)

(* hex.EncodeToString *)
EncodeToString(b) ==
  [i \in 1 .. 2 * Len(b) |->
     IF i % 2 = 1 THEN b[(i + 1) \div 2] \div Base ELSE b[i \div 2] % Base]

(* hex.DecodeString: an odd length and a foreign character are errors. *)
DecodeString(s) ==
  IF Len(s) % 2 = 0 /\ IsDigits(s)
  THEN Ok([i \in 1 .. Len(s) \div 2 |-> Base * s[2 * i - 1] + s[2 * i]])
  ELSE Error

-----------------------------------------------------------------------------
(* The argument types of the RPC server. *)

(* ArgUint64.MarshalText and Hex, and a faulty variant without the prefix. *)
HexUintBare(n) == Numeral(n)
HexUint(n) == Prefix \o Numeral(n)

(* Faulty variant: the size of the number is not checked. *)
ParseUintUnbounded(s) ==
  LET str == TrimPrefix(s)
  IN  IF str # <<>> /\ IsDigits(str) THEN Ok(Value(str, Base)) ELSE Error

(* ArgUint64.UnmarshalText: one prefix is trimmed, and the rest must be a  *)
(* number of Width bits.                                                   *)
ParseUint(s) ==
  LET str == TrimPrefix(s)
  IN  IF str # <<>> /\ IsDigits(str) /\ Value(str, Base) \in UInts
      THEN Ok(Value(str, Base))
      ELSE Error

(* ArgBytes.MarshalText and Hex: encodeToHex, whose padding never applies. *)
HexBytes(b) == Prefix \o EncodeToString(b)

(* Faulty variant of decodeToHex: the missing digit is added at the end. *)
DecodeBytesPadEnd(s) ==
  LET str == TrimPrefix(s)
  IN  DecodeString(IF Len(str) % 2 = 0 THEN str ELSE Append(str, 0))

(* ArgBytes.UnmarshalText: decodeToHex adds a missing first digit. *)
DecodeBytes(s) ==
  LET str == TrimPrefix(s)
  IN  DecodeString(IF Len(str) % 2 = 0 THEN str ELSE <<0>> \o str)

-----------------------------------------------------------------------------
(* The transaction. *)

(* What Tx.Hash hashes, which the rollup id is not part of; the hash of    *)
(* two transactions is the same iff these bytes are.                       *)
Preimage(t) ==
  HexUint(t.last) \o HexUint(t.new) \o t.root \o t.exit \o HexBytes(t.proof)

PreimageOf == [t \in Txs |-> Preimage(t)]

(* s[(i-1)*n : i*n], the i-th part of n elements. *)
Part(s, i, n) == SubSeq(s, (i - 1) * n + 1, i * n)

(* Faulty variant: parts that are missing are taken for zeros. *)
ConvertProofUnchecked(p) ==
  LET s == TrimPrefix(p)
  IN  Ok([i \in 1 .. ProofLength |->
            IF i * 2 * HashLength <= Len(s)
            THEN DecodeBytes(Part(s, i, 2 * HashLength)).val
            ELSE [k \in 1 .. HashLength |-> 0]])

(* ConvertProof: the length is that of the text with its prefix, and every *)
(* hash is decoded from its own part, by a decoder that trims and pads as  *)
(* decodeToHex does; copy then takes all of its HashLength bytes.          *)
ConvertProof(p) ==
  LET hash(i) == DecodeBytes(Part(TrimPrefix(p), i, 2 * HashLength))
  IN  IF /\ Len(p) = 2 * (ProofLength * HashLength) + 2
         /\ \A i \in 1 .. ProofLength : hash(i).ok
      THEN Ok([i \in 1 .. ProofLength |-> hash(i).val])
      ELSE Error

(* BytesToProof *)
BytesToProof(b) ==
  IF Len(b) = ProofLength * HashLength
  THEN Ok([i \in 1 .. ProofLength |-> Part(b, i, HashLength)])
  ELSE Error

(* abi.Pack: a number in a word, and an array as its words in a row. *)
Word(n) == CHOOSE w \in Hashes : Value(w, Base * Base) = n

Words(p) ==
  [k \in 1 .. ProofLength * HashLength |->
     p[1 + ((k - 1) \div HashLength)][1 + ((k - 1) % HashLength)]]

(* BuildTrustedVerifyBatchesTxData: the arguments in the order of the      *)
(* contract's function, without the constant pendStateNum and the address  *)
(* of the sequencer (Interop).                                             *)
BuildTxData(t) ==
  LET p == ConvertProof(HexBytes(t.proof))
  IN  IF p.ok
      THEN Ok(Word(t.rollup) \o Word(t.last) \o Word(t.new) \o t.exit \o t.root
                \o Words(p.val))
      ELSE Error

-----------------------------------------------------------------------------
(* The row and its columns. *)

(* MonitoredTx.Tx.  Nonce, receiver and value are the same throughout. *)
EthTx(m) == [gas |-> (m.gas + GasOffset) % 2^Width, price |-> m.price, data |-> m.data]

(* The arguments of INSERT and UPDATE: DataStringPtr, GasPrice.Uint64. *)
Columns(m) ==
  [gas |-> m.gas, price |-> m.price % 2^Width, data |-> EncodeToString(m.data)]

(* scanMtx *)
scanMtx(c) ==
  LET d == DecodeString(c.data)
  IN  IF d.ok THEN Ok([gas |-> c.gas, price |-> c.price, data |-> d.val]) ELSE Error

(* suggestedGasPrice, and a faulty variant that forgets the limit. *)
SuggestedGasPriceUncut(s) == (s * MarginNum) \div MarginDen
SuggestedGasPrice(s) == M!LimitedGasPrice(s, limit)

-----------------------------------------------------------------------------
(* The client posts what encoding/json makes of the transaction, or one of *)
(* the arguments in another spelling: any digits, with no prefix, one or   *)
(* two, or with a foreign character.                                       *)
Spellings ==
  {p \o d : p \in {<<>>, Prefix, Prefix \o Prefix}, d \in DigitStrings(MaxDigits)}
    \union {d \o <<Other>> : d \in DigitStrings(2)}

Marshal(t) ==
  [rollup |-> t.rollup, last |-> HexUint(t.last), new |-> HexUint(t.new),
   root |-> t.root, exit |-> t.exit, proof |-> HexBytes(t.proof)]

Init ==
  /\ limit \in Limits
  /\ stage = "signed"
  /\ tx \in Txs
  /\ text = <<>> /\ got = <<>> /\ data = <<>>
  /\ mem = <<>> /\ cols = <<>> /\ built = <<>>

Post ==
  /\ stage = "signed"
  /\ stage' = "posted"
  /\ \/ text' = Marshal(tx)
     \/ \E f \in {"last", "new", "proof"}, s \in Spellings :
          text' = [Marshal(tx) EXCEPT ![f] = s]
  /\ UNCHANGED <<limit, tx, got, data, mem, cols, built>>

(* The server decodes every argument or refuses the call. *)
Decode ==
  LET last == ParseUint(text.last)
      new == ParseUint(text.new)
      proof == DecodeBytes(text.proof)
  IN  /\ stage = "posted"
      /\ IF last.ok /\ new.ok /\ proof.ok
         THEN /\ stage' = "received"
              /\ got' = [rollup |-> text.rollup, last |-> last.val, new |-> new.val,
                         root |-> text.root, exit |-> text.exit, proof |-> proof.val]
         ELSE stage' = "refused" /\ got' = got
      /\ UNCHANGED <<limit, tx, text, data, mem, cols, built>>

(* The endpoint builds the call data; what the client posted is forgotten. *)
Build ==
  LET d == BuildTxData(got)
  IN  /\ stage = "received"
      /\ IF d.ok THEN stage' = "built" /\ data' = d.val
                 ELSE stage' = "unbuilt" /\ data' = data
      /\ tx' = <<>> /\ text' = <<>>
      /\ UNCHANGED <<limit, got, mem, cols, built>>

(* Client.Add: a gas and a price for the row, and its INSERT. *)
Add ==
  /\ stage = "built"
  /\ stage' = "stored"
  /\ \E s \in Suggestions, g \in Gases :
       LET m == [gas |-> g, price |-> SuggestedGasPrice(s), data |-> data]
       IN  cols' = Columns(m) /\ built' = EthTx(m)
  /\ got' = <<>> /\ data' = <<>>
  /\ UNCHANGED <<limit, tx, text, mem>>

(* A round of the monitor loads the row; it gets no further if it cannot. *)
Load ==
  /\ stage = "stored"
  /\ scanMtx(cols).ok
  /\ stage' = "loaded"
  /\ mem' = scanMtx(cols).val
  /\ UNCHANGED <<limit, tx, text, got, data, cols, built>>

(* reviewMonitoredTx raises gas and price, never lowers them, and the row  *)
(* is updated before the transaction is sent.                              *)
Review ==
  /\ stage = "loaded"
  /\ stage' = "stored"
  /\ \E s \in Suggestions, g \in Gases :
       LET p == SuggestedGasPrice(s)
           m == [mem EXCEPT !.price = IF p > @ THEN p ELSE @,
                            !.gas = IF g > @ THEN g ELSE @]
       IN  cols' = Columns(m) /\ built' = EthTx(m)
  /\ mem' = <<>>
  /\ UNCHANGED <<limit, tx, text, got, data>>

Next == Post \/ Decode \/ Build \/ Add \/ Load \/ Review

Spec == Init /\ [][Next]_vars

-----------------------------------------------------------------------------
(* What a text denotes, said without the parsers: digits after at most one *)
(* prefix, for bytes two digits each and a first one that may be missing.  *)
Numerals(s) ==
  {d \in {SubSeq(s, k, Len(s)) : k \in {1, 3}} :
     IsDigits(d) /\ s \in {d, Prefix \o d}}

DenotesUint(s, n) == \E d \in Numerals(s) : d # <<>> /\ Value(d, Base) = n

DenotesBytes(s, b) ==
  \E d \in Numerals(s) :
    /\ Len(b) = (Len(d) + 1) \div 2
    /\ Value(d, Base) = Value(b, Base * Base)

Denotes(x, t) ==
  /\ DenotesUint(x.last, t.last)
  /\ DenotesUint(x.new, t.new)
  /\ DenotesBytes(x.proof, t.proof)
  /\ x.rollup = t.rollup /\ x.root = t.root /\ x.exit = t.exit

(* What the server decodes and what the row stores are values of their     *)
(* types: no parse returns a number of more than Width bits.               *)
TypeOK ==
  /\ limit \in Limits
  /\ stage \in {"signed", "posted", "refused", "received", "unbuilt", "built",
                "stored", "loaded"}
  /\ stage = "received" =>
       got \in [rollup : Rollups, last : UInts, new : UInts, root : Roots,
                exit : Exits, proof : Seq(Bytes)]
  /\ stage = "stored" => cols.price \in UInts /\ IsDigits(cols.data)

(* Tx.Hash over what ArgUint64 and ArgBytes.UnmarshalText decode: in       *)
(* whatever spelling a client posts the transaction it signed, the server  *)
(* takes it and computes the hash that was signed.  So the signature is    *)
(* recovered to its signer, and the same transaction posted again in       *)
(* another spelling meets its row instead of becoming a second one.  And a *)
(* text the server takes denotes what was decoded.                         *)
HashAgrees ==
  stage \in {"received", "refused"} =>
    /\ Denotes(text, tx) => stage = "received" /\ Preimage(got) = Preimage(tx)
    /\ stage = "received" => Denotes(text, got)

(* Tx.Hash binds every field it hashes: transactions with the same bytes   *)
(* differ in the rollup id at most, although the fields are strung         *)
(* together without lengths and roots may contain the characters of the    *)
(* texts around them.  That the hash "uniquely identifies the tx" is more, *)
(* and not so: HashNamesTx of Client.                                      *)
HashBindsFields ==
  stage = "signed" =>
    \A t \in Txs : PreimageOf[t] = PreimageOf[tx] => [t EXCEPT !.rollup = tx.rollup] = tx

(* BuildTrustedVerifyBatchesTxData: the proof goes through its text, a     *)
(* check of the text's length and a decoder per hash, and the call carries *)
(* its bytes as they were received; exactly the proofs that BytesToProof   *)
(* refuses, those of another length, are refused.                          *)
CallCarriesProof ==
  /\ stage \in {"built", "unbuilt"} => (stage = "built" <=> BytesToProof(got.proof).ok)
  /\ stage = "built" =>
       data = Word(got.rollup) \o Word(got.last) \o Word(got.new) \o got.exit \o got.root \o got.proof

(* scanMtx of a stored row succeeds (one row it cannot read would fail     *)
(* GetByStatus for every row) and MonitoredTx.Tx of the result is the      *)
(* transaction the process had when it stored the row, whatever prices     *)
(* were suggested since Add: a restart goes on with the transaction that   *)
(* was signed and broadcast, not with another one of the same nonce.  The  *)
(* one exception is a price beyond uint64, of which GasPrice.Uint64 stores *)
(* the low bits, and it takes a configuration without a limit.             *)
ReloadRebuildsTx ==
  stage = "stored" =>
    LET m == scanMtx(cols)
    IN  /\ m.ok
        /\ EthTx(m.val) = built <=> built.price \in UInts
        /\ limit > 0 => built.price \in UInts
=============================================================================
