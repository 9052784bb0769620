------------------------------ MODULE ZerocoinDB ------------------------------
(***************************************************************************)
(* CZerocoinDB (txdb.cpp), the LevelDB database of zerocoin mints, spends  *)
(* and accumulator values.  Its records are keyed by a type character and  *)
(* a hash:                                                                 *)
(*   'm', GetPubCoinHash(pubcoin)  ->  hash of the minting transaction     *)
(*   's', Hash(serial)             ->  hash of the spending transaction    *)
(*   '2', accumulator checksum     ->  accumulator value                   *)
(* A pubcoin, a serial or a checksum stands for its own hash here: the     *)
(* hashes are 256-bit and taken as injective, and a transaction hash never *)
(* equals a pubcoin or serial hash.  lastCall and lastResult are the call  *)
(* the node made last and what it returned.                                *)
(***************************************************************************)
EXTENDS TLC

CONSTANTS PubCoins, Serials, Txs, Checksums, AccValues

VARIABLES db, lastCall, lastResult

vars == <<db, lastCall, lastResult>>

\* The three key spaces, as <<type, hash>>.
MintKey(c)  == <<"m", c>>
SpendKey(s) == <<"s", s>>
AccKey(k)   == <<"2", k>>

Init == db = <<>> /\ lastCall = <<"none">> /\ lastResult = TRUE

\* CLevelDBWrapper::Write and Erase: erasing a missing key succeeds.
Put(key, val) == (key :> val) @@ db
Del(key) == [x \in DOMAIN db \ {key} |-> db[x]]

\* Read(key, value): the record's value, or failure.
ReadKey(key) ==
  IF key \in DOMAIN db THEN [ok |-> TRUE, val |-> db[key]] ELSE [ok |-> FALSE]

Call(name, arg, db2) ==
  /\ db' = db2 /\ lastCall' = <<name, arg>> /\ lastResult' = TRUE

WriteCoinMint(c, tx)  == Call("WriteCoinMint", c, Put(MintKey(c), tx))
EraseCoinMint(c)      == Call("EraseCoinMint", c, Del(MintKey(c)))
WriteCoinSpend(s, tx) == Call("WriteCoinSpend", s, Put(SpendKey(s), tx))
EraseCoinSpend(s)     == Call("EraseCoinSpend", s, Del(SpendKey(s)))
WriteAccumulatorValue(k, v) == Call("WriteAccumulatorValue", k, Put(AccKey(k), v))
EraseAccumulatorValue(k)    == Call("EraseAccumulatorValue", k, Del(AccKey(k)))

ReadCoinMint(c)  == ReadKey(MintKey(c))
ReadCoinSpend(s) == ReadKey(SpendKey(s))
ReadAccumulatorValue(k) == ReadKey(AccKey(k))

(***************************************************************************)
(* WipeCoins(strType): an unknown type returns false.  Otherwise the       *)
(* cursor, sought to (type, 0), visits every record of the type and puts   *)
(* the hash read from the record's VALUE into setDelete; then Erase is     *)
(* called on (type, hash) for each hash in setDelete.                      *)
(***************************************************************************)
WipeCoins(strType) ==
  IF strType \notin {"spends", "mints"}
  THEN /\ lastCall' = <<"WipeCoins", strType>> /\ lastResult' = FALSE
       /\ UNCHANGED db
  ELSE LET type      == IF strType = "spends" THEN "s" ELSE "m"
           setDelete == {db[key] : key \in {x \in DOMAIN db : x[1] = type}}
       IN Call("WipeCoins", strType,
               [x \in DOMAIN db \ {<<type, h>> : h \in setDelete} |-> db[x]])

Next ==
  \/ \E c \in PubCoins, tx \in Txs : WriteCoinMint(c, tx)
  \/ \E c \in PubCoins : EraseCoinMint(c)
  \/ \E s \in Serials, tx \in Txs : WriteCoinSpend(s, tx)
  \/ \E s \in Serials : EraseCoinSpend(s)
  \/ \E k \in Checksums, v \in AccValues : WriteAccumulatorValue(k, v)
  \/ \E k \in Checksums : EraseAccumulatorValue(k)
  \/ \E t \in {"spends", "mints", "coins"} : WipeCoins(t)

Spec == Init /\ [][Next]_vars

-----------------------------------------------------------------------------
(***************************************************************************)
(* After WipeCoins("mints") or WipeCoins("spends") returns true, no mint   *)
(* (or spend) of any coin can be read back: that is what the name says    *)
(* and what the "failed to delete" log at txdb.cpp:449 reports missing.    *)
(***************************************************************************)
WipeCoinsEmpties ==
  /\ lastCall = <<"WipeCoins", "mints">> /\ lastResult
       => \A c \in PubCoins : ~ReadCoinMint(c).ok
  /\ lastCall = <<"WipeCoins", "spends">> /\ lastResult
       => \A s \in Serials : ~ReadCoinSpend(s).ok
=============================================================================
