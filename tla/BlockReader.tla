----------------------------- MODULE BlockReader -----------------------------
(***************************************************************************)
(* Coin.block (coins.py) and read_tx_block (tx.py): a raw block is read    *)
(* from its header on, one transaction after the other, with a cursor.     *)
(***************************************************************************)
EXTENDS SpecialTx

CONSTANTS
    Txs,        \* the transactions that may come in a block, by coin
    HeaderTx    \* the one in the data of merged mining

VARIABLES
    coin, header,   \* the kinds of block and header
    txs,            \* the transactions that the daemon wrote
    block,          \* its cells
    cursor,
    left,           \* transactions still to be read of a tree, -1 for its count
    txsRead

vars == <<coin, header, txs, block, cursor, left, txsRead>>

TxWire(c, tx) ==
    CASE c \in SegWitCoins \cup LegacyCoins -> Wire(c, tx)
      [] c = "decred" -> DecredWire(tx)
      [] c \in SpecialCoins -> SpecialWire(c, tx)

\* Decred has a second tree, of stake transactions; here each has one.
Written(c, kind, ts) ==
    HeaderWire(kind, HeaderTx) \o
    (IF c = "decred" THEN FlattenSeq([k \in 1 .. Len(ts) |-> <<Num(1)>> \o TxWire(c, ts[k])])
     ELSE <<Num(Len(ts))>> \o FlattenSeq([k \in 1 .. Len(ts) |-> TxWire(c, ts[k])]))

Init ==
    /\ coin \in SegWitCoins \cup LegacyCoins \cup SpecialCoins \cup {"decred"}
    /\ header \in HeaderKinds
    /\ txs \in Txs[coin] \X Txs[coin]
    /\ block = Written(coin, header, txs)
    /\ cursor = 1 /\ left = 0 /\ txsRead = <<>>

ReadHeader ==
    /\ cursor = 1
    /\ cursor' = HeaderEnd(header, block) /\ left' = -1
    /\ UNCHANGED <<coin, header, txs, block, txsRead>>

ReadCount ==
    /\ left = -1
    /\ left' = Number(block[cursor]) /\ cursor' = cursor + 1
    /\ UNCHANGED <<coin, header, txs, block, txsRead>>

ReadTx ==
    LET tx == CASE coin \in SegWitCoins -> ReadTxParts(coin, block, cursor)
                [] coin \in LegacyCoins -> ReadLegacy(Format(coin, block[cursor][2][2]), block, cursor)
                [] coin = "decred" -> ReadDecred(block, cursor)
                [] coin \in SpecialCoins -> ReadSpecial(coin, block, cursor)
    IN  /\ left > 0
        /\ txsRead' = Append(txsRead, tx) /\ cursor' = tx.next
        /\ left' = IF coin \in SegWitCoins /\ tx.skipped THEN 0      \* raised
                   ELSE IF left = 1 /\ coin = "decred" /\ Len(txsRead) = 0 THEN -1
                   ELSE left - 1
        /\ UNCHANGED <<coin, header, txs, block>>

Next == ReadHeader \/ ReadCount \/ ReadTx

Spec == Init /\ [][Next]_vars

-----------------------------------------------------------------------------
(* Properties *)

\* Whatever form a transaction has in a block, its ID is that of what Tx.serialize
\* writes of it, so a witness, a comment or data of an extension block never
\* moves it; its size is that of BIP 141; and each is read from where it begins.
\* "certain MW transactions [...] cannot be parsed and will raise".
IdsRight ==
    \A k \in 1 .. Len(txsRead) :
        /\ coin \in SegWitCoins \cup LegacyCoins =>
            LET tx == txs[k]
                id == Serialize(coin, tx)
                unreadable == tx.mweb = "data" \/ tx.inputs = <<>>
            IN  IF unreadable THEN txsRead[k].skipped
                ELSE /\ txsRead[k].txid = id /\ txsRead[k].wtxid = Wire(coin, tx)
                     /\ tx.mweb = "none" => txsRead[k].vsize = CeilDiv(3 * Size(id) + Size(Wire(coin, tx)), 4)
        /\ coin = "decred" => txsRead[k].txid = <<NoWitness(txs[k].version)>> \o DecredPrefix(txs[k])

\* A special transaction that is written and read again is the same, and its
\* payload is read to its end: the two methods of each class agree.
PayloadsRight ==
    coin \in SpecialCoins =>
        \A k \in 1 .. Len(txsRead) :
            LET tx == txs[k]
                payload == PayloadWritten(coin, tx.tx_type, tx.payload)
                named == {cell \in {payload[i] : i \in 1 .. Len(payload)} : Len(cell[2]) = 2}
            IN  /\ txsRead[k].right
                /\ txsRead[k].version = tx.version /\ txsRead[k].tx_type = tx.tx_type
                /\ tx.tx_type # 0 => txsRead[k].found = {<<cell[2][1], cell[2]>> : cell \in named}
=============================================================================
