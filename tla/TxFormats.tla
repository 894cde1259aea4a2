------------------------------ MODULE TxFormats ------------------------------
(***************************************************************************)
(* Transactions and block headers on the wire (tx.py): what the            *)
(* deserialisers of the SegWit family read, those of coins with a time or  *)
(* a comment, Decred's, and those that look for the end of a header.       *)
(*                                                                         *)
(* A block is a sequence of cells.  A cell is a field: its width in bytes, *)
(* and its value, a number if it is a count, a length or a flag.  Hashes   *)
(* are injective, so the cells that are hashed stand for a transaction ID. *)
(* How a daemon writes is external: the formats of BIP 144 and of the      *)
(* coins, from how the code reads them.                                    *)
(***************************************************************************)
EXTENDS Integers, Sequences, SequencesExt

\* A number below 253, as a varint has it in one byte.
Num(n) == <<1, <<n>>>>
Data(width, name, value) == <<width, <<name, value>>>>
Number(cell) == cell[2][1]
Size(cells) == FoldLeft(LAMBDA sum, cell : sum + cell[1], 0, cells)
VarBytes(n, name, k) == <<Num(n), Data(n, name, k)>>

-----------------------------------------------------------------------------
(* Formats: what comes between version and inputs, or the marker, and what   *)
(* comes after the outputs or the witness                                    *)

SegWit(version) == [prefix |-> <<>>, tail |-> <<Data(4, "locktime", 0)>>]

\* Its flag may announce data of the extension block.
Litecoin(version) == SegWit(version)

TimeSegWit(version) == [SegWit(version) EXCEPT !.prefix = <<Data(4, "time", 0)>>]

NavCoin(version) ==
    [TimeSegWit(version) EXCEPT !.tail = IF version >= 2 THEN @ \o VarBytes(3, "dzeel", 0) ELSE @]

DiamondVersion == 12
Diamond(version) ==
    [SegWit(version) EXCEPT !.prefix = IF version = DiamondVersion THEN <<Data(32, "preblockhash", 0)>> ELSE @]

SegWitCoins == {"bitcoin", "litecoin", "timesegwit", "navcoin", "diamond"}

\* Coins without SegWit, whose version tells which fields there are.
TxTime(version) == TimeSegWit(version)
Blackcoin(version) == IF version < 2 THEN TxTime(version) ELSE SegWit(version)
Electra(version) == IF version # 7 THEN TxTime(version) ELSE SegWit(version)
Simplicity(version) == IF version < 3 THEN TxTime(version) ELSE SegWit(version)

ECCoin(version) ==
    [TxTime(version) EXCEPT !.tail = IF version > 1 THEN Append(@, Data(32, "skipped", 0)) ELSE @]

Trezarcoin(version) ==
    [TxTime(version) EXCEPT !.tail = IF version >= 2 THEN @ \o VarBytes(3, "txcomment", 0) ELSE @]

Reddcoin(version) ==
    [SegWit(version) EXCEPT !.tail = IF version > 1 THEN Append(@, Data(4, "time", 0)) ELSE @]

LegacyCoins == {"txtime", "blackcoin", "electra", "simplicity", "eccoin", "trezarcoin", "reddcoin"}

Format(coin, version) ==
    CASE coin = "bitcoin" -> SegWit(version)
      [] coin = "litecoin" -> Litecoin(version)
      [] coin = "timesegwit" -> TimeSegWit(version)
      [] coin = "navcoin" -> NavCoin(version)
      [] coin = "diamond" -> Diamond(version)
      [] coin = "txtime" -> TxTime(version)
      [] coin = "blackcoin" -> Blackcoin(version)
      [] coin = "electra" -> Electra(version)
      [] coin = "simplicity" -> Simplicity(version)
      [] coin = "eccoin" -> ECCoin(version)
      [] coin = "trezarcoin" -> Trezarcoin(version)
      [] coin = "reddcoin" -> Reddcoin(version)

-----------------------------------------------------------------------------
(* Writing: tx has a version, the lengths of the scripts of its inputs and   *)
(* outputs, the lengths of the items of each input's witness, <<>> if it has *)
(* none, and mweb, which is none, null or data                               *)

Version(tx) == <<Data(4, "version", tx.version)>>

\* TxInput.serialize and TxOutput.serialize.
InputCells(tx) ==
    <<Num(Len(tx.inputs))>> \o
    FlattenSeq([k \in 1 .. Len(tx.inputs) |->
        <<Data(32, "prev_hash", k), Data(4, "prev_idx", k)>>
        \o VarBytes(tx.inputs[k], "script", k) \o <<Data(4, "sequence", k)>>])
OutputCells(tx) ==
    <<Num(Len(tx.outputs))>> \o
    FlattenSeq([k \in 1 .. Len(tx.outputs) |->
        <<Data(8, "value", k)>> \o VarBytes(tx.outputs[k], "pk_script", k)])

\* Tx.serialize, and what the transaction ID of any of these coins is made of.
Serialize(coin, tx) ==
    Version(tx) \o Format(coin, tx.version).prefix \o InputCells(tx) \o OutputCells(tx)
    \o Format(coin, tx.version).tail

WitnessCells(tx) ==
    FlattenSeq([k \in 1 .. Len(tx.witness) |->
        <<Num(Len(tx.witness[k]))>>
        \o FlattenSeq([j \in 1 .. Len(tx.witness[k]) |-> VarBytes(tx.witness[k][j], "item", j)])])

MwebCells(tx) ==
    CASE tx.mweb = "none" -> <<>>
      [] tx.mweb = "null" -> <<Num(0)>>
      [] tx.mweb = "data" -> <<Num(1), Data(99, "mwtx", 0)>>

Extended(tx) == tx.witness # <<>> \/ tx.mweb # "none"

Flag(tx) == (IF tx.witness # <<>> THEN 1 ELSE 0) + (IF tx.mweb # "none" THEN 8 ELSE 0)

\* As it is in a block.
Wire(coin, tx) ==
    IF ~ Extended(tx) THEN Serialize(coin, tx)
    ELSE Version(tx) \o Format(coin, tx.version).prefix \o <<Num(0), Num(Flag(tx))>>
         \o InputCells(tx) \o OutputCells(tx) \o WitnessCells(tx) \o MwebCells(tx)
         \o Format(coin, tx.version).tail

-----------------------------------------------------------------------------
(* Reading, from the cell at a cursor: the cursor after each part            *)

InputsEnd(cells, cursor) == cursor + 1 + 5 * Number(cells[cursor])
OutputsEnd(cells, cursor) == cursor + 1 + 3 * Number(cells[cursor])
WitnessEnd(cells, cursor, fields) ==
    FoldLeft(LAMBDA at, k : at + 1 + 2 * Number(cells[at]), cursor, [k \in 1 .. fields |-> k])

Slice(cells, from, to) == SubSeq(cells, from, to - 1)
HasBit(flag, bit) == (flag \div bit) % 2 = 1
CeilDiv(n, d) == (n + d - 1) \div d

Skipped(cursor) == [skipped |-> TRUE, txid |-> <<>>, wtxid |-> <<>>, vsize |-> 0, next |-> cursor]
Read(txid, wtxid, vsize, cursor) ==
    [skipped |-> FALSE, txid |-> txid, wtxid |-> wtxid, vsize |-> vsize, next |-> cursor]

\* Deserializer.read_tx, with the fields of the coin, and its _read_tx_parts.
ReadLegacy(format, cells, start) ==
    LET end == OutputsEnd(cells, InputsEnd(cells, start + 1 + Len(format.prefix))) + Len(format.tail)
        whole == Slice(cells, start, end)
    IN  Read(whole, whole, Size(whole), end)

\* Mutant of Hashed: the fields after the witness are left out.
HashedHead(head, body, tail) == head \o body

\* What the transaction ID is the hash of: the transaction less what is extended.
Hashed(head, body, tail) == head \o body \o tail

\* _read_tx_parts of the SegWit deserialisers.
ReadTxParts(coin, cells, start) ==
    LET format == Format(coin, cells[start][2][2])
        marker == start + 1 + Len(format.prefix)
        flag == Number(cells[marker + 1])
        inputs == marker + 2
        outputs == InputsEnd(cells, inputs)
        witness == OutputsEnd(cells, outputs)
        mweb == IF coin = "litecoin" /\ ~ HasBit(flag, 1) THEN witness
                ELSE WitnessEnd(cells, witness, Number(cells[inputs]))
        hasMweb == coin = "litecoin" /\ HasBit(flag, 8)
        tail == IF hasMweb THEN mweb + 1 ELSE mweb
        end == tail + Len(format.tail)
        witness_size == Size(Slice(cells, witness, mweb)) + 2
        base_size == Size(Slice(cells, start, end)) - witness_size
    IN  IF cells[marker] # Num(0) THEN ReadLegacy(format, cells, start)
        ELSE IF coin = "litecoin" /\ (flag = 0 \/ (hasMweb /\ cells[mweb] # Num(0))) THEN Skipped(start)
        ELSE Read(Hashed(Slice(cells, start, marker), Slice(cells, inputs, witness), Slice(cells, tail, end)),
                  Slice(cells, start, end), CeilDiv(4 * base_size + witness_size, 4), end)

-----------------------------------------------------------------------------
(* Decred: a transaction has a witness after its expiry, one for each input  *)

DecredPrefix(tx) ==
    <<Num(Len(tx.inputs))>> \o
    FlattenSeq([k \in 1 .. Len(tx.inputs) |->
        <<Data(32, "prev_hash", k), Data(4, "prev_idx", k), Data(1, "tree", k), Data(4, "sequence", k)>>])
    \o <<Num(Len(tx.outputs))>> \o
    FlattenSeq([k \in 1 .. Len(tx.outputs) |->
        <<Data(8, "value", k), Data(2, "version", k)>> \o VarBytes(tx.outputs[k], "pk_script", k)])
    \o <<Data(4, "locktime", 0), Data(4, "expiry", 0)>>

DecredWire(tx) ==
    Version(tx) \o DecredPrefix(tx) \o <<Num(Len(tx.inputs))>> \o
    FlattenSeq([k \in 1 .. Len(tx.inputs) |->
        <<Data(8, "value_in", k), Data(4, "block_height", k), Data(4, "block_index", k)>>
        \o VarBytes(tx.inputs[k], "script", k)])

\* The header of a transaction without witness, of the same version.
NoWitness(version) == Data(4, "no witness", version)

ReadDecred(cells, start) ==
    LET inputs == start + 1
        outputs == inputs + 1 + 4 * Number(cells[inputs])
        end_prefix == outputs + 1 + 4 * Number(cells[outputs]) + 2
        end == end_prefix + 1 + 5 * Number(cells[end_prefix])
        txid == <<NoWitness(cells[start][2][2])>> \o Slice(cells, start + 1, end_prefix)
    IN  Read(txid, txid, Size(Slice(cells, start, end)), end)

-----------------------------------------------------------------------------
(* Headers: what a block begins with, and where read_header finds its end    *)

\* The data of merged mining: a transaction, two branches and the other header.
AuxPowWire(tx, branch, chain) ==
    Serialize("bitcoin", tx) \o <<Data(32, "parent hash", 0), Num(branch)>>
    \o FlattenSeq([k \in 1 .. branch |-> <<Data(32, "branch", k)>>])
    \o <<Data(4, "index", 0), Num(chain)>>
    \o FlattenSeq([k \in 1 .. chain |-> <<Data(32, "chain branch", k)>>])
    \o <<Data(4, "chain index", 0), Data(80, "parent header", 0)>>

AuxPowEnd(cells, start) ==
    LET branch == ReadLegacy(SegWit(1), cells, start).next + 1
        chain == branch + 1 + Number(cells[branch]) + 1
    IN  chain + 1 + Number(cells[chain]) + 2

\* A header is one cell; kind tells what follows it, as its version has it.
HeaderKinds == {"plain", "auxpow", "solution", "algo", "algo auxpow"}

HeaderWire(kind, tx) ==
    <<Data(80, "header", kind)>> \o
    CASE kind = "plain" -> <<>>
      [] kind = "auxpow" -> AuxPowWire(tx, 2, 1)
      [] kind = "solution" -> VarBytes(36, "solution", 0)
      [] kind = "algo" -> <<Data(1, "algo", 0), Data(4, "bits", 0), Data(80, "fake header", 0)>>
      [] kind = "algo auxpow" -> <<Data(1, "algo", 1), Data(4, "bits", 0)>> \o AuxPowWire(tx, 0, 2)

\* DeserializerAuxPow.read_header: the version tells whether there is such data.
AuxPowHeaderEnd(cells) == IF cells[1] = Data(80, "header", "auxpow") THEN AuxPowEnd(cells, 2) ELSE 2

\* DeserializerEquihash.read_header.
EquihashHeaderEnd(cells) == IF Number(cells[2]) = 0 THEN 3 ELSE 4

\* DeserializerXaya.read_header.
XayaHeaderEnd(cells) == IF cells[2] = Data(1, "algo", 1) THEN AuxPowEnd(cells, 4) ELSE 5

HeaderEnd(kind, cells) ==
    CASE kind \in {"plain", "auxpow"} -> AuxPowHeaderEnd(cells)
      [] kind = "solution" -> EquihashHeaderEnd(cells)
      [] kind \in {"algo", "algo auxpow"} -> XayaHeaderEnd(cells)
=============================================================================
