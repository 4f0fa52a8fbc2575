------------------------- MODULE OTSettingsAbstract -------------------------
(***************************************************************************)
(* What the OpenThread settings platform API of flash.c promises its       *)
(* caller, as its comments state it: every key holds a collection of       *)
(* values; Set replaces the collection by the one new value ("Delete all   *)
(* nvm3 objects matching the input key" then "Add new setting object"),    *)
(* Add writes the value to a NEW object, Delete removes the value at an    *)
(* index or, with index -1, all of them, Get reads the value at an index,  *)
(* and Wipe removes every setting.  Indices are positions among the values *)
(* present and shift as values are deleted, so a collection is a bag.     *)
(* Each call is one atomic step recorded in 'last'.  While the NVM3 handle *)
(* is not open ('avail' false) a call changes nothing.                     *)
(***************************************************************************)
EXTENDS Integers, Bags

CONSTANTS Keys,     \* OpenThread setting keys
          Values,   \* setting values
          Empty,    \* a zero-length or NULL value
          Cap,      \* values a key can hold
          NoKey     \* key of a call that names none

VARIABLES settings, \* key -> bag of values
          last,     \* the call that took the last step
          avail     \* the store can be used

vars == <<settings, last, avail>>

Call(op, k) == last' = [op |-> op, key |-> k]

Init == /\ settings = [k \in Keys |-> EmptyBag]
        /\ last = [op |-> "Boot", key |-> NoKey]
        /\ avail \in BOOLEAN

Put(k, b) == settings' = [settings EXCEPT ![k] = b]

Get(k) == Call("Get", k) /\ UNCHANGED <<settings, avail>>

Set(k, v) ==
    /\ avail
    /\ Put(k, IF v = Empty THEN EmptyBag ELSE SetToBag({v}))
    /\ Call("Set", k) /\ UNCHANGED avail

Add(k, v) ==
    /\ avail
    /\ IF v # Empty /\ BagCardinality(settings[k]) < Cap
       THEN Put(k, settings[k] (+) SetToBag({v}))
       ELSE UNCHANGED settings
    /\ Call("Add", k) /\ UNCHANGED avail

Delete(k, i) ==
    /\ avail
    /\ \/ i = -1 /\ Put(k, EmptyBag)
       \/ i >= 0 /\ i < BagCardinality(settings[k])
          /\ \E x \in BagToSet(settings[k]) : Put(k, settings[k] (-) SetToBag({x}))
       \/ (i >= BagCardinality(settings[k]) \/ i < -1) /\ UNCHANGED settings
    /\ Call("Delete", k) /\ UNCHANGED avail

Wipe == /\ avail
        /\ settings' = [k \in Keys |-> EmptyBag]
        /\ Call("Wipe", NoKey) /\ UNCHANGED avail

\* a call made while the handle is not open
Fail(op, k) == ~avail /\ Call(op, k) /\ UNCHANGED <<settings, avail>>

\* otPlatSettingsInit may open the handle; otPlatSettingsDeinit may close it
Open  == Call("Init", NoKey) /\ avail' \in {avail, TRUE} /\ UNCHANGED settings
Close == Call("Deinit", NoKey) /\ avail' \in {avail, FALSE} /\ UNCHANGED settings

\* a reset of the device: the store persists, the handle is reopened or not
Reboot == Call("Reboot", NoKey) /\ avail' \in BOOLEAN /\ UNCHANGED settings

Next ==
    \/ \E k \in Keys :
          \/ Get(k)
          \/ \E v \in Values \cup {Empty} : Set(k, v) \/ Add(k, v)
                                         \/ Fail("Set", k) \/ Fail("Add", k)
          \/ \E i \in -1..Cap : Delete(k, i) \/ Fail("Delete", k)
    \/ Wipe \/ Fail("Wipe", NoKey)
    \/ Open \/ Close \/ Reboot

Spec == Init /\ [][Next]_vars

-----------------------------------------------------------------------------
(* What a reset or a storage error in the middle of a call may do.  A call that deletes the   *)
(* values of the keys ks (Set or Delete(k, -1) for one key, Wipe for all)  *)
(* and is cut short by a reset leaves each of those keys with some of its  *)
(* values and every other key as it was; it never adds, duplicates or      *)
(* brings back a value.                                                    *)

\* the keys in ks keep some of their values, every other key all of its own
\* (a relation on settings': this part of the specification serves as the
\* property an implementation is checked against)
Shrinks(ks) ==
    /\ DOMAIN settings' = Keys
    /\ \A k \in ks : settings'[k] \sqsubseteq settings[k]
    /\ \A k \in Keys \ ks : settings'[k] = settings[k]

ResetDuring(ks) ==
    /\ avail /\ Shrinks(ks)
    /\ Call("Reboot", NoKey) /\ avail' \in BOOLEAN

\* a call op on key k that fails part-way, having removed some of k's values
FailPartial(op, k) ==
    /\ avail /\ Shrinks({k})
    /\ Call(op, k) /\ UNCHANGED avail

FaultNext ==
    \/ Next
    \/ \E ks \in {{k} : k \in Keys} \cup {Keys} : ResetDuring(ks)
    \/ \E k \in Keys, op \in {"Set", "Add", "Delete"} : FailPartial(op, k)

FaultSpec == Init /\ [][FaultNext]_vars
=============================================================================
