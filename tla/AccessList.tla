----------------------------- MODULE AccessList -----------------------------
(***************************************************************************)
(* The EIP-2930 access list of trie_by_cid/state/access_list.go.  Each     *)
(* address holds the index of its slot set in the slots slice, or -1 while *)
(* it has no slots; deletion cuts the slice at the index, which is right   *)
(* only if deletions undo additions in reverse order.  Indices start at 0  *)
(* as in the code, positions of the sequence at 1.                         *)
(***************************************************************************)
EXTENDS Integers, Sequences

CONSTANTS Warm, Slot, Nil

newAccessList == [addresses |-> [w \in Warm |-> Nil], slots |-> <<>>]

ContainsAddress(al, w) == al.addresses[w] # Nil

\* Contains, for an address that has a slot set: al.slots[idx].
SlotSet(al, w) == al.slots[al.addresses[w] + 1]

ContainsSlot(al, w, s) ==
    /\ ContainsAddress(al, w)
    /\ al.addresses[w] # -1
    /\ s \in SlotSet(al, w)

AddAddress(al, w) ==
    IF ContainsAddress(al, w) THEN al ELSE [al EXCEPT !.addresses[w] = -1]

AddSlot(al, w, s) ==
    IF al.addresses[w] \in {Nil, -1}
    THEN [addresses |-> [al.addresses EXCEPT ![w] = Len(al.slots)],
          slots     |-> Append(al.slots, {s})]
    ELSE [al EXCEPT !.slots[al.addresses[w] + 1] = @ \cup {s}]

\* The index DeleteSlot is about to use is that of an existing slot set; the
\* code panics on an absent address and on an index out of range.
CanDeleteSlot(al, w) ==
    /\ ContainsAddress(al, w)
    /\ al.addresses[w] + 1 \in 1..Len(al.slots)

DeleteSlot(al, w, s) ==
    LET idx  == al.addresses[w]
        left == SlotSet(al, w) \ {s}
    IN IF left = {}
       THEN [addresses |-> [al.addresses EXCEPT ![w] = -1],
             slots     |-> SubSeq(al.slots, 1, idx)]
       ELSE [al EXCEPT !.slots[idx + 1] = left]

DeleteAddress(al, w) == [al EXCEPT !.addresses[w] = Nil]

\* The meaning of an access list: the addresses and (address, slot) pairs in it.
AccessListView(al) ==
    [addresses |-> {w \in Warm : ContainsAddress(al, w)},
     slots     |-> {p \in Warm \X Slot : ContainsSlot(al, p[1], p[2])}]

\* Every slot set belongs to exactly one address.
WellFormedAccessList(al) ==
    /\ \A w \in Warm : al.addresses[w] \in {Nil, -1} \cup 0..(Len(al.slots) - 1)
    /\ \A i \in 1..Len(al.slots) :
          /\ al.slots[i] # {}
          /\ \E w \in Warm : al.addresses[w] = i - 1
    /\ \A v, w \in Warm :
          v # w /\ al.addresses[v] = al.addresses[w] => al.addresses[v] \in {Nil, -1}
=============================================================================
