----------------------------- MODULE EntryTable -----------------------------
(***************************************************************************)
(* The recorder's table of entries (trcEntryTable.h, external), as the      *)
(* tests use it: an entry has an address, a few states, options and a       *)
(* symbol.  Handles are kept under the names of the variables that hold     *)
(* them in the tests.                                                       *)
(***************************************************************************)
EXTENDS TestScript

EntrySlots == 10        \* TRC_CFG_ENTRY_SLOTS
States     == 0 .. 2    \* TRC_ENTRY_TABLE_STATE_COUNT

\* slots is the size of the table: programs with TRC_CFG_ENTRY_SLOTS 1 have 8, as the
\* table of indices is aligned.
EntryGlobals == [entries |-> <<>>, handles |-> <<>>, slots |-> EntrySlots,
                 no_room |-> 0, longest |-> 0]

AlignedSlots == 8

\* Initializing the three tables of a program, the first steps of its setups.
InitializesTables ==
  <<Ok("EntryTableInitialize", <<>>), Ok("EntryIndexTableInitialize", <<>>),
    Ok("DiagnosticsInitialize", <<>>)>>

\* An assignment of 0 to a handle of the test, the assertion that it is not 0, and a
\* setup called by another one.
Clears(handle) == <<[Assign("Clear") EXCEPT !.args = <<handle>>]>>
IsSet(handle)  == <<[Glance("IsSet", TRUE) EXCEPT !.args = <<handle>>]>>
Nested(setup)  == setup \o <<See("Returned", 0)>>

\* The entry of a handle or of an address, if there is one.
Of(handle, s) ==
  IF handle \in DOMAIN s.handles THEN {s.handles[handle]} \cap DOMAIN s.entries ELSE {}

At(address, s) == {i \in DOMAIN s.entries : s.entries[i].address = address}

FreeSlots(s) == 1 .. s.slots \ DOMAIN s.entries

\* A symbol that is too long is cut.
Truncated(symbol) == IF symbol = "TOO LONG" THEN "LONGEST" ELSE symbol

Length(symbol) ==
  CASE symbol = "LONGEST" -> 28      \* TRC_ENTRY_TABLE_SYMBOL_LENGTH
    [] symbol = "OF 10" -> 10 [] symbol = "OF 20" -> 20 [] symbol = "OF 40" -> 40
    [] OTHER -> 0

NewEntry(address) ==
  [address |-> address, states |-> [i \in States |-> 0], options |-> {}, symbol |-> ""]

\* A new entry in a free slot; without an address the slot stands for it.
CreateEntry(handle, slot, address, s) ==
  [s EXCEPT !.entries = slot :> NewEntry(address) @@ @, !.handles = handle :> slot @@ @]

Create(handle, Address(_), s) ==
  IF FreeSlots(s) = {} THEN Refuses([s EXCEPT !.no_room = @ + 1])
  ELSE Succeeds(CreateEntry(handle, Min(FreeSlots(s)), Address(Min(FreeSlots(s))), s))

\* Change, look at or delete the entry, if there is one.
Change(entry, s, F(_)) ==
  If(entry # {},
     [s EXCEPT !.entries = [i \in DOMAIN @ |-> IF i \in entry THEN F(@[i]) ELSE @[i]]], s)

Look(entry, s, F(_)) ==
  IF entry = {} THEN Refuses(s) ELSE Returns(F(s.entries[Min(entry)]), s)

Delete(entry, s) ==
  If(entry # {}, [s EXCEPT !.entries = [i \in DOMAIN @ \ entry |-> @[i]]], s)

SetSymbol(entry, symbol, s) ==
  Change(entry, [s EXCEPT !.longest = IF Length(symbol) > @ THEN Length(symbol) ELSE @],
         LAMBDA e : [e EXCEPT !.symbol = Truncated(symbol)])

SetState(entry, index, state, s) ==
  IF index \notin States THEN Refuses(s)
  ELSE Change(entry, s, LAMBDA e : [e EXCEPT !.states[index] = state])

SetOptions(entry, options, s) ==
  Change(entry, s, LAMBDA e : [e EXCEPT !.options = @ \cup options])

\* A new entry with an address, a symbol and a state, or the one that has the address.
Register(handle, address, symbol, state, s) ==
  LET new == [NewEntry(address) EXCEPT !.symbol = symbol, !.states[0] = state]
      slots == At(address, s) \cup FreeSlots(s)
      slot == IF At(address, s) # {} THEN Min(At(address, s)) ELSE Min(slots)
  IN If(slots # {}, [s EXCEPT !.entries = slot :> new @@ @, !.handles = handle :> slot @@ @], s)

EntryOutcome(step, s) ==
  LET a == step.args IN
  CASE step.call = "EntryTableInitialize" -> Succeeds([s EXCEPT !.entries = <<>>])
    [] step.call = "EntryIndexTableInitialize" -> Succeeds(s)
    [] step.call = "DiagnosticsInitialize" -> Succeeds([s EXCEPT !.no_room = 0, !.longest = 0])
    [] step.call = "EntryCreate" -> Create(a[1], LAMBDA slot : slot, s)
    [] step.call = "EntryCreateWithAddress" -> Create(a[2], LAMBDA slot : a[1], s)
    [] step.call = "EntryDelete" -> Delete(Of(a[1], s), s)
    [] step.call = "EntryFind" ->
         IF At(a[1], s) = {} THEN Refuses(s)
         ELSE LET slot == Min(At(a[1], s)) IN Returns(slot, [s EXCEPT !.handles = a[2] :> slot @@ @])
    [] step.call = "EntryGetAddress" -> Look(Of(a[1], s), s, LAMBDA e : e.address)
    [] step.call = "EntryGetState"   -> Look(Of(a[1], s), s, LAMBDA e : e.states[a[2]])
    [] step.call = "EntryGetSymbol"  -> Look(Of(a[1], s), s, LAMBDA e : e.symbol)
    [] step.call = "EntryGetOptions" -> Look(Of(a[1], s), s, LAMBDA e : e.options)
    [] step.call = "EntrySetState"   -> SetState(Of(a[1], s), a[2], a[3], s)
    [] step.call = "EntrySetSymbol"  -> SetSymbol(Of(a[1], s), a[2], s)
    [] step.call = "EntrySetOptions" -> SetOptions(Of(a[1], s), a[2], s)
    [] step.call = "EntryClearOptions" ->
         Change(Of(a[1], s), s, LAMBDA e : [e EXCEPT !.options = @ \ a[2]])
    [] step.call = "EntryGetAtIndex" -> Succeeds([s EXCEPT !.handles = a[2] :> a[1] @@ @])
    [] step.call = "EntryGetCount" -> Returns(Cardinality(DOMAIN s.entries), s)
    [] step.call = "Clear" ->
         Succeeds([s EXCEPT !.handles = [h \in DOMAIN @ \ {a[1]} |-> @[h]]])
    [] step.call = "IsSet" -> Returns(a[1] \in DOMAIN s.handles, s)
    [] step.call = "Returned" -> Returns(0, s)
=============================================================================
