----------------------------- MODULE OTSettings -----------------------------
(***************************************************************************)
(* The OpenThread settings store of flash.c (NVM3 build): every value of   *)
(* OpenThread key k is an NVM3 object with key makeNvm3ObjKey(k, index),   *)
(* index 0..NUM_INDEXED_SETTINGS.  Get and Delete find "the index-th       *)
(* object" by enumerating the present objects of the key in chunks of      *)
(* ENUM_NVM3_KEY_LIST_SIZE, restarting each chunk after the last key seen; *)
(* addSetting writes to the first free index; Set is Delete(-1) followed   *)
(* by addSetting; Wipe deletes every object of the OpenThread domain.      *)
(* The calls are made by the OpenThread instance one at a time (under the  *)
(* stack mutex), so each call is one action.  The NVM3 objects persist     *)
(* across a reset; a reset inside Set, Delete(-1) or Wipe leaves the       *)
(* deletions made so far (each NVM3 write or delete is atomic).            *)
(* nvm3_enumObjects is taken to return the matching keys in ascending      *)
(* order, which the ++nvm3Key restart of the enumeration relies on.        *)
(***************************************************************************)
EXTENDS Integers, Sequences, FiniteSets, SequencesExt

CONSTANTS Keys,          \* OpenThread setting keys used (1..255)
          Values,        \* setting values
          Empty,         \* a zero-length or NULL value
          NumIdx,        \* NUM_INDEXED_SETTINGS (OPENTHREAD_CONFIG_MLE_MAX_CHILDREN)
          ListSize,      \* ENUM_NVM3_KEY_LIST_SIZE
          NoObj,         \* no NVM3 object under this key
          NoKey,         \* key of a call that names none
          CrashEnabled,  \* the device may reset at any point
          NvmFaults      \* nvm3_deleteObject and nvm3_writeData may fail

ASSUME Keys \subseteq 1..255 /\ NumIdx \in Nat /\ ListSize \in Nat \ {0}

Slots  == 0..NumIdx
NoSlot == -1

VARIABLES nvm,     \* key -> index -> value of the NVM3 object, or NoObj
          hOpen,   \* nvm3_defaultHandle->hasBeenOpened
          otOwns,  \* nvmOpenedByOT
          otUp,    \* between otPlatSettingsInit and otPlatSettingsDeinit
          res      \* the last call and the otError it returned

vars == <<nvm, hOpen, otOwns, otUp, res>>

-----------------------------------------------------------------------------
(* NVM3 calls on a store n                                                 *)

\* nvm3_getObjectInfo
ObjectInfo(n, k, s) ==
    IF ~hOpen THEN "ERR_NOT_OPENED"
    ELSE IF n[k][s] = NoObj THEN "ERR_KEY_NOT_FOUND" ELSE "OK"

\* nvm3_enumObjects(handle, keys, ENUM_NVM3_KEY_LIST_SIZE,
\*                  makeNvm3ObjKey(k, from), makeNvm3ObjKey(k, NUM_INDEXED_SETTINGS))
EnumObjects(n, k, from) ==
    LET s == SetToSortSeq({x \in Slots : x >= from /\ n[k][x] # NoObj}, <)
    IN IF ~hOpen THEN <<>>
       ELSE SubSeq(s, 1, IF Len(s) < ListSize THEN Len(s) ELSE ListSize)

\* Fault variant of MapNvm3Error: the NVM3 code is passed through unmapped.
MapNvm3ErrorRaw(e) == e

MapNvm3Error(e) == CASE e = "OK"                -> "NONE"
                     [] e = "ERR_KEY_NOT_FOUND" -> "NOT_FOUND"
                     [] OTHER                   -> "FAILED"

-----------------------------------------------------------------------------
(* The enumeration loops of otPlatSettingsGet / otPlatSettingsDelete and   *)
(* the index search of addSetting                                          *)

\* Fault variant of FindIndex: the next chunk restarts at the last key seen.
RECURSIVE FindIndexNoInc(_, _, _, _, _)
FindIndexNoInc(n, k, aIndex, from, idx) ==
    LET chunk == EnumObjects(n, k, from)
        pos   == aIndex - idx
    IN IF idx > NumIdx THEN NoSlot
       ELSE IF 0 <= pos /\ pos < Len(chunk) THEN chunk[pos + 1]
       ELSE IF Len(chunk) < ListSize THEN NoSlot
       ELSE FindIndexNoInc(n, k, aIndex, chunk[Len(chunk)], idx + Len(chunk))

\* The index of the aIndex-th present object of k, or NoSlot: the while
\* loop from idx, enumerating from nvm3 key 'from'.
RECURSIVE FindIndex(_, _, _, _, _)
FindIndex(n, k, aIndex, from, idx) ==
    LET chunk == EnumObjects(n, k, from)
        pos   == aIndex - idx
    IN IF idx > NumIdx THEN NoSlot
       ELSE IF 0 <= pos /\ pos < Len(chunk) THEN chunk[pos + 1]
       ELSE IF Len(chunk) < ListSize THEN NoSlot
       ELSE FindIndex(n, k, aIndex, chunk[Len(chunk)] + 1, idx + Len(chunk))

\* The objects otPlatSettingsDelete(k, -1) visits (and deletes), in order.
RECURSIVE EnumAll(_, _, _, _)
EnumAll(n, k, from, idx) ==
    LET chunk == EnumObjects(n, k, from)
    IN IF idx > NumIdx \/ chunk = <<>> THEN <<>>
       ELSE chunk \o (IF Len(chunk) < ListSize THEN <<>>
                      ELSE EnumAll(n, k, chunk[Len(chunk)] + 1, idx + Len(chunk)))

\* addSetting: the first index whose getObjectInfo says KEY_NOT_FOUND gets
\* the value; another error stops the search; if every index is in use the
\* loop ends with the err of its last getObjectInfo.
RECURSIVE AddLoop(_, _, _, _)
AddLoop(n, k, idx, err) ==
    IF idx > NumIdx THEN [err |-> err, slot |-> NoSlot]
    ELSE LET e == MapNvm3Error(ObjectInfo(n, k, idx)) IN
         CASE e = "NOT_FOUND" -> [err |-> "NONE", slot |-> idx]
           [] e # "NONE"      -> [err |-> e, slot |-> NoSlot]
           [] OTHER           -> AddLoop(n, k, idx + 1, e)

AddSetting(n, k, v) ==
    IF v = Empty THEN [err |-> "INVALID_ARGS", slot |-> NoSlot]
    ELSE AddLoop(n, k, 0, "NONE")

\* the store n after writing v at the slot addSetting chose
Written(n, k, v, a) == IF a.slot = NoSlot THEN n ELSE [n EXCEPT ![k][a.slot] = v]

\* the store n without the objects <<key, index>> in the set d
Without(n, d) == [k \in Keys |-> [s \in Slots |-> IF <<k, s>> \in d THEN NoObj ELSE n[k][s]]]

Pairs(k, sq) == {<<k, sq[i]>> : i \in DOMAIN sq}

-----------------------------------------------------------------------------
\* the handle after sl_platform_init: nvm3_initDefault opens it before the
\* OpenThread instance exists, and its result is ignored, so it may be closed
OpenedAtBoot == BOOLEAN

Init == /\ nvm = [k \in Keys |-> [s \in Slots |-> NoObj]]
        /\ hOpen \in OpenedAtBoot
        /\ otOwns = FALSE
        /\ otUp = FALSE
        /\ res = [op |-> "Boot", key |-> NoKey, err |-> "NONE"]

Return(op, k, err) == res' = [op |-> op, key |-> k, err |-> err]

\* otPlatSettingsInit: open the default handle unless someone already has
SettingsInit ==
    /\ ~otUp
    /\ otUp' = TRUE
    /\ IF hOpen
       THEN otOwns' = FALSE /\ UNCHANGED hOpen
       ELSE \/ hOpen' = TRUE /\ otOwns' = TRUE
            \/ UNCHANGED <<hOpen, otOwns>>     \* nvm3_open failed
    /\ Return("Init", NoKey, "NONE")
    /\ UNCHANGED nvm

\* otPlatSettingsDeinit: close the handle only if OpenThread opened it
SettingsDeinit ==
    /\ otUp
    /\ otUp' = FALSE
    /\ IF otOwns /\ hOpen
       THEN hOpen' = FALSE /\ otOwns' = FALSE
       ELSE UNCHANGED <<hOpen, otOwns>>
    /\ Return("Deinit", NoKey, "NONE")
    /\ UNCHANGED nvm

SettingsGet(k, i) ==
    LET s == FindIndex(nvm, k, i, 0, 0) IN
    /\ otUp
    /\ Return("Get", k, IF s = NoSlot THEN "NOT_FOUND"
                        ELSE MapNvm3Error(ObjectInfo(nvm, k, s)))
    /\ UNCHANGED <<nvm, hOpen, otOwns, otUp>>

\* otPlatSettingsDelete(k, i): the index-th object, or every object if i = -1
SettingsDelete(k, i) ==
    LET d == IF i = -1 THEN Range(EnumAll(nvm, k, 0, 0))
             ELSE LET s == FindIndex(nvm, k, i, 0, 0)
                  IN IF s = NoSlot THEN {} ELSE {s}
    IN /\ otUp
       /\ nvm' = Without(nvm, {<<k, s>> : s \in d})
       /\ Return("Delete", k, IF d = {} THEN "NOT_FOUND" ELSE "NONE")
       /\ UNCHANGED <<hOpen, otOwns, otUp>>

\* Fault variant of SettingsSet: the old objects are not deleted first.
SettingsSetNoDelete(k, v) ==
    LET a == AddSetting(nvm, k, v)
    IN /\ otUp
       /\ nvm' = Written(nvm, k, v, a)
       /\ Return("Set", k, a.err)
       /\ UNCHANGED <<hOpen, otOwns, otUp>>

\* otPlatSettingsSet: Delete(k, -1), whose NONE or NOT_FOUND always lets
\* addSetting run, then addSetting on what is left
SettingsSet(k, v) ==
    LET n1 == Without(nvm, Pairs(k, EnumAll(nvm, k, 0, 0)))
        a  == AddSetting(n1, k, v)
    IN /\ otUp
       /\ nvm' = Written(n1, k, v, a)
       /\ Return("Set", k, a.err)
       /\ UNCHANGED <<hOpen, otOwns, otUp>>

SettingsAdd(k, v) ==
    LET a == AddSetting(nvm, k, v) IN
    /\ otUp
    /\ nvm' = Written(nvm, k, v, a)
    /\ Return("Add", k, a.err)
    /\ UNCHANGED <<hOpen, otOwns, otUp>>

\* the objects otPlatSettingsWipe deletes, in nvm3 key order
WipeOrder == IF ~hOpen THEN <<>>
             ELSE SetToSortSeq({<<k, s>> \in Keys \X Slots : nvm[k][s] # NoObj},
                               LAMBDA a, b : a[1] < b[1] \/ (a[1] = b[1] /\ a[2] < b[2]))

SettingsWipe ==
    /\ otUp
    /\ nvm' = Without(nvm, Range(WipeOrder))
    /\ Return("Wipe", NoKey, "NONE")
    /\ UNCHANGED <<hOpen, otOwns, otUp>>

-----------------------------------------------------------------------------
(* Resets: at any point (Reboot), inside otPlatSettingsSet or             *)
(* otPlatSettingsDelete(k, -1) (DeletionInterrupted), or inside            *)
(* otPlatSettingsWipe (WipeInterrupted).  The RAM state (handle,           *)
(* nvmOpenedByOT) starts afresh and sl_platform_init reopens the handle   *)
(* (or fails to) before OpenThread runs.                                   *)

Restart == /\ otUp' = FALSE /\ otOwns' = FALSE /\ hOpen' \in OpenedAtBoot
           /\ Return("Reboot", NoKey, "NONE")

Reboot == CrashEnabled /\ Restart /\ UNCHANGED nvm

\* a reset after the first j deletions of the sequence ds of <<key, index>>
Interrupted(ds) ==
    /\ CrashEnabled /\ otUp
    /\ \E j \in 1..Len(ds) : nvm' = Without(nvm, Range(SubSeq(ds, 1, j)))
    /\ Restart

\* Fault variant of DeletionInterrupted: otPlatSettingsSet writes the new
\* object before it deletes the old ones, and the reset comes in between.
DeletionInterruptedAddFirst(k) ==
    \E v \in Values :
        LET ds == EnumAll(nvm, k, 0, 0)
            n1 == Written(nvm, k, v, AddSetting(nvm, k, v))
        IN /\ CrashEnabled /\ otUp
           /\ \E j \in 0..Len(ds) : nvm' = Without(n1, Pairs(k, SubSeq(ds, 1, j)))
           /\ Restart

DeletionInterrupted(k)  == Interrupted([i \in DOMAIN EnumAll(nvm, k, 0, 0) |->
                                           <<k, EnumAll(nvm, k, 0, 0)[i]>>])
WipeInterrupted         == Interrupted(WipeOrder)

-----------------------------------------------------------------------------
(* NVM3 storage errors on an open handle (a full or failing flash page).   *)

\* nvm3_deleteObject fails in otPlatSettingsDelete(k, i), or in the
\* Delete(k, -1) that otPlatSettingsSet starts with: the objects before it
\* are gone, SuccessOrExit returns FAILED, and Set skips addSetting
DeleteFails(k) ==
    LET ds == EnumAll(nvm, k, 0, 0) IN
    /\ NvmFaults /\ otUp /\ hOpen /\ ds # <<>>
    /\ \E j \in 0..Len(ds) - 1, op \in {"Set", "Delete"} :
          /\ nvm' = Without(nvm, Pairs(k, SubSeq(ds, 1, j)))
          /\ Return(op, k, "FAILED")
    /\ UNCHANGED <<hOpen, otOwns, otUp>>

\* nvm3_writeData fails in addSetting at the free index it found: Add
\* returns FAILED with nothing written, Set after deleting every object
WriteFails(k) ==
    /\ NvmFaults /\ otUp /\ hOpen
    /\ \/ \E v \in Values : AddSetting(nvm, k, v).slot # NoSlot
          /\ Return("Add", k, "FAILED") /\ UNCHANGED nvm
       \/ nvm' = Without(nvm, Pairs(k, EnumAll(nvm, k, 0, 0)))
          /\ Return("Set", k, "FAILED")
    /\ UNCHANGED <<hOpen, otOwns, otUp>>

Next ==
    \/ SettingsInit \/ SettingsDeinit \/ SettingsWipe
    \/ \E k \in Keys :
          \/ \E i \in -1..NumIdx + 1 : SettingsGet(k, i) \/ SettingsDelete(k, i)
          \/ \E v \in Values \cup {Empty} : SettingsSet(k, v) \/ SettingsAdd(k, v)
          \/ DeletionInterrupted(k)
          \/ DeleteFails(k) \/ WriteFails(k)
    \/ Reboot \/ WipeInterrupted

Spec == Init /\ [][Next]_vars

-----------------------------------------------------------------------------
(* Properties                                                              *)

Errors == {"NONE", "NOT_FOUND", "FAILED", "INVALID_ARGS"}

TypeOK ==
    /\ nvm \in [Keys -> [Slots -> Values \cup {NoObj}]]
    /\ {hOpen, otOwns, otUp} \subseteq BOOLEAN
    /\ res.op \in {"Boot", "Init", "Deinit", "Get", "Set", "Add", "Delete", "Wipe", "Reboot"}
    /\ res.key \in Keys \cup {NoKey}
    /\ res.err \in Errors

\* the indices of k holding an object, in ascending order
Stored(n, k) == SetToSortSeq({s \in Slots : n[k][s] # NoObj}, <)

\* The chunked enumeration finds what a single pass over the present
\* objects finds: for every index argument, otPlatSettingsGet and
\* otPlatSettingsDelete select the index-th object in key order (NOT_FOUND
\* exactly when there are not that many), and Delete(k, -1) visits every
\* object once.  The ++nvm3Key restart, the objCnt < ENUM_NVM3_KEY_LIST_SIZE
\* stop and the idx <= NUM_INDEXED_SETTINGS bound must agree at chunk
\* boundaries for this to hold.
IndexSearchExact ==
    hOpen => \A k \in Keys :
        /\ EnumAll(nvm, k, 0, 0) = Stored(nvm, k)
        /\ \A i \in -1..NumIdx + 1 :
              FindIndex(nvm, k, i, 0, 0)
                = IF 0 <= i /\ i < Len(Stored(nvm, k)) THEN Stored(nvm, k)[i + 1] ELSE NoSlot

\* the values of k, as a bag
ValuesBag(k) == [v \in {nvm[k][s] : s \in Slots} \ {NoObj} |->
                    Cardinality({s \in Slots : nvm[k][s] = v})]

Abs == INSTANCE OTSettingsAbstract
         WITH settings <- [k \in Keys |-> ValuesBag(k)],
              last <- [op |-> res.op, key |-> res.key],
              avail <- hOpen,
              Cap <- NumIdx + 1

\* The NVM3 implementation behaves as the settings API its comments
\* describe: every call is one step of OTSettingsAbstract on the bags of
\* values, so Set leaves exactly the new value, Add adds one, Delete
\* removes the index-th or all, Wipe empties everything, and a reset
\* changes nothing stored.
SettingsRefinement == Abs!Spec

\* With resets and NVM3 errors, the store still only ever holds what the
\* API put there: a reset or a failing nvm3 call inside otPlatSettingsSet or
\* otPlatSettingsDelete costs key k some of its values and nothing else, a
\* reset inside otPlatSettingsWipe costs every key some of its values, and
\* no fault leaves a value the caller had replaced or deleted, or two copies
\* of one.  It depends on Set deleting the old objects before it writes the
\* new one, and on each deletion being an nvm3 step of its own.
FaultRefinement == Abs!FaultSpec

\* A call to otPlatSettingsAdd that returns OT_ERROR_NONE has written the
\* value to a new NVM3 object of the key (addSetting's contract: "writes
\* input buffer data to a NEW nvm3 object").
AddStoresOnSuccess ==
    [][res'.op = "Add" /\ res'.err = "NONE" =>
         Len(Stored(nvm', res'.key)) = Len(Stored(nvm, res'.key)) + 1]_vars
=============================================================================
