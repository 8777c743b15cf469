-------------------------- MODULE TaskCommonProofs --------------------------
(* Theorems about task common, for any threads, blocks and sizes.          *)
EXTENDS TaskCommon, TLAPS, SequenceTheorems

USE DEF Pc

LEMMA PaddedIsDoublewords ==
  ASSUME NEW n \in Nat
  PROVE  Padded(n) \in Doublewords
BY DEF Padded, Doublewords

LEMMA SumOfDoublewords ==
  ASSUME NEW m \in Doublewords, NEW n \in Doublewords
  PROVE  m + n \in Doublewords
BY DEF Doublewords

LEMMA SizeIsDoublewords == \A b \in Block : Size(b) \in Doublewords
BY PaddedIsDoublewords, TaskCommonAssumption DEF Size

LEMMA DoublewordsInNat == 0 \in Doublewords /\ \A n \in Doublewords : n \in Nat
BY DEF Doublewords

LEMMA EmptyIsEntry == NoBlock \in Address /\ Empty \in Entry
BY DoublewordsInNat DEF NoBlock, Address, Empty, Entry

LEMMA ExtendedIsTable ==
  ASSUME NEW table \in Seq(Entry), NEW n \in Nat
  PROVE  /\ Extended(table, n) \in Seq(Entry)
         /\ Len(Extended(table, n)) = IF Len(table) < n THEN n ELSE Len(table)
         /\ \A i \in 1 .. Len(table) : Extended(table, n)[i] = table[i]
         /\ \A i \in 1 .. Len(Extended(table, n)) : i > Len(table) => Extended(table, n)[i] = Empty
<1> DEFINE k == IF Len(table) < n THEN n ELSE Len(table)
<1>1. Len(table) \in Nat
  OBVIOUS
<1>2. k \in Nat
  BY <1>1
<1>3. \A i \in 1 .. k : (IF i <= Len(table) THEN table[i] ELSE Empty) \in Entry
  BY <1>1, EmptyIsEntry, ElementOfSeq
<1>4. Extended(table, n) \in [1 .. k -> Entry]
  BY <1>3 DEF Extended
<1>5. Extended(table, n) \in Seq(Entry) /\ Len(Extended(table, n)) = k
  <2> HIDE DEF k
  <2> QED BY <1>2, <1>4, IsASeq, LenProperties
<1> QED BY <1>1, <1>5 DEF Extended

(* What a thread has counted, and the block it was asked for, are in the   *)
(* cross reference, which only grows.                                      *)
Known(t) ==
  /\ pc[t] \in {"malloc", "fill"} => blk_count[t] <= Len(olist)
  /\ pc[t] \notin {"user", "gone"} =>
       /\ tblk_addr[t] \in Block
       /\ blk_num[t] \in DOMAIN olist /\ olist[blk_num[t]] = tblk_addr[t]

Typed == TypeOK /\ \A t \in Thread : Known(t)

LEMMA KnownStays ==
  ASSUME TypeOK, olist' = olist, NEW t \in Thread, Known(t),
         \/ UNCHANGED <<pc[t], tblk_addr[t], blk_num[t], blk_count[t]>>
         \/ pc'[t] \in {"user", "gone"}
         \/ /\ pc[t] \notin {"user", "gone"} /\ UNCHANGED <<tblk_addr[t], blk_num[t]>>
            /\ pc'[t] \in {"malloc", "fill"} => blk_count'[t] <= Len(olist)
  PROVE  Known(t)'
BY DEF Known, TypeOK

(* Every step keeps the types: one step per action.                        *)
LEMMA TypedInductive == Typed /\ [Next]_vars => Typed'
<1> SUFFICES ASSUME Typed, [Next]_vars PROVE Typed'
  OBVIOUS
<1> USE TaskCommonAssumption, SizeIsDoublewords, DoublewordsInNat
<1>1. TypeOK
  BY DEF Typed
<1>2. Len(olist) \in Nat /\ DOMAIN olist = 1 .. Len(olist) /\ Len(heap) \in Nat
  BY <1>1 DEF TypeOK
<1>3. ASSUME NEW t \in Thread, NEW b \in Block, _taskcom_address(t, b) PROVE Typed'
  <2> USE <1>1, <1>2 DEF TypeOK
  <2>1. Size(b) \in Doublewords /\ total_tcom_size + Size(b) \in Doublewords
    BY SumOfDoublewords
  <2>4. /\ calls' \in [Thread -> 0 .. MaxCalls]
        /\ tblk_addr' \in [Thread -> Block \cup {"none"}]
        /\ pc' \in [Thread -> Pc]
        /\ UNCHANGED <<tcda_key, specific, heap, blk_count, blk_total_size, com_blocks,
                       tc_desc, given>>
    <3>1. calls[t] + 1 \in 0 .. MaxCalls
      BY <1>3, SMTT(30) DEF _taskcom_address
    <3>2. calls' = [calls EXCEPT ![t] = calls[t] + 1]
      BY <1>3 DEF _taskcom_address
    <3> QED BY <1>3, <3>1, <3>2, SMTT(30) DEF _taskcom_address, Go
  <2>2. CASE \E n \in DOMAIN olist : olist[n] = b
    <3>1. NumberOf(b) \in DOMAIN olist /\ olist[NumberOf(b)] = b
      BY <2>2 DEF NumberOf
    <3>2. blk_num' = [blk_num EXCEPT ![t] = NumberOf(b)] /\ UNCHANGED <<olist, total_tcom_size>>
      BY <1>3, <2>2 DEF _taskcom_address, shared
    <3>5. blk_num' \in [Thread -> Nat]
      BY <3>1, <3>2
    <3>6. olist' \in Seq(Block) /\ total_tcom_size' \in Doublewords
      BY <3>2
    <3>3. TypeOK'
      BY <2>4, <3>5, <3>6
    <3>4. \A u \in Thread : Known(u)'
      BY <1>3, <3>1, <3>2 DEF _taskcom_address, Go, Known, Typed
    <3> QED BY <3>3, <3>4 DEF Typed
  <2>3. CASE ~\E n \in DOMAIN olist : olist[n] = b
    <3>1. /\ blk_num' = [blk_num EXCEPT ![t] = Len(olist) + 1]
          /\ olist' = Append(olist, b) /\ total_tcom_size' = total_tcom_size + Size(b)
      BY <1>3, <2>3 DEF _taskcom_address
    <3>2. /\ olist' \in Seq(Block) /\ Len(olist') = Len(olist) + 1
          /\ olist'[Len(olist) + 1] = b
          /\ \A n \in DOMAIN olist : olist'[n] = olist[n]
      BY <3>1
    <3>3. DOMAIN olist' = 1 .. Len(olist) + 1
      BY <3>2
    <3>6. blk_num' \in [Thread -> Nat]
      BY <3>1
    <3>7. olist' \in Seq(Block) /\ total_tcom_size' \in Doublewords
      BY <2>1, <3>1, <3>2
    <3>4. TypeOK'
      BY <2>4, <3>6, <3>7
    <3>5. \A u \in Thread : Known(u)'
      <4> SUFFICES ASSUME NEW u \in Thread PROVE Known(u)'
        OBVIOUS
      <4> HIDE DEF TypeOK
      <4>1. CASE u = t
        <5>1. /\ pc'[t] = "key" /\ tblk_addr'[t] = b
              /\ blk_num'[t] = Len(olist) + 1
          BY <1>3, <3>1 DEF _taskcom_address, Go, TypeOK
        <5> QED BY <4>1, <5>1, <3>2, <3>3 DEF Known
      <4>2. CASE u # t
        <5>1. UNCHANGED <<pc[u], tblk_addr[u], blk_num[u], blk_count[u]>>
          BY <1>3, <3>1, <4>2 DEF _taskcom_address, Go, TypeOK
        <5>2. Known(u) /\ blk_count[u] \in Nat
          BY DEF Typed, TypeOK
        <5>3. pc[u] \in {"malloc", "fill"} => blk_count[u] <= Len(olist')
          BY <5>2, <3>2 DEF Known
        <5>4. pc[u] \notin {"user", "gone"} => olist'[blk_num[u]] = tblk_addr[u]
          BY <5>2, <3>2 DEF Known
        <5> QED BY <5>1, <5>2, <5>3, <5>4, <3>3 DEF Known
      <4> QED BY <4>1, <4>2
    <3> QED BY <3>4, <3>5 DEF Typed
  <2> QED BY <2>2, <2>3
<1>4. ASSUME NEW t \in Thread, look_for_key(t) PROVE Typed'
  <2>1. TypeOK'
    <3>1. tc_desc' \in [Thread -> Seq(Entry)]
      BY <1>1, <1>4 DEF look_for_key, TypeOK
    <3> QED BY <1>1, <1>4, <3>1 DEF look_for_key, Go, shared, TypeOK
  <2>2. \A u \in Thread : Known(u)'
    BY <1>1, <1>4, KnownStays DEF look_for_key, Go, shared, TypeOK, Typed
  <2> QED BY <2>1, <2>2 DEF Typed
<1>5. ASSUME NEW t \in Thread, create_key(t) PROVE Typed'
  <2>1. TypeOK'
    BY <1>1, <1>5 DEF create_key, Go, shared, locals, TypeOK
  <2>2. \A u \in Thread : Known(u)'
    BY <1>1, <1>5, KnownStays DEF create_key, Go, shared, locals, TypeOK, Typed
  <2> QED BY <2>1, <2>2 DEF Typed
<1>6. ASSUME NEW t \in Thread, build_taskcom_desc(t) PROVE Typed'
  <2>1. TypeOK'
    BY <1>1, <1>2, <1>6 DEF build_taskcom_desc, Go, shared, TypeOK
  <2>2. \A u \in Thread : Known(u)'
    <3>1. /\ olist' = olist /\ pc[t] = "build" /\ blk_count'[t] = Len(olist)
          /\ UNCHANGED <<tblk_addr, blk_num>>
      BY <1>1, <1>6 DEF build_taskcom_desc, shared, TypeOK
    <3>2. \A u \in Thread \ {t} : UNCHANGED <<pc[u], blk_count[u]>>
      BY <1>1, <1>6 DEF build_taskcom_desc, Go, TypeOK
    <3> QED BY <1>1, <1>2, <3>1, <3>2, KnownStays DEF Typed
  <2> QED BY <2>1, <2>2 DEF Typed
<1>7. ASSUME NEW t \in Thread, build_malloc(t) PROVE Typed'
  <2>1. [piece |-> Len(heap) + 1, offset |-> 0] \in Address
    BY <1>2 DEF Address
  <2>2. TypeOK'
    BY <1>1, <1>2, <1>7, <2>1 DEF build_malloc, Go, shared, TypeOK
  <2>3. \A u \in Thread : Known(u)'
    BY <1>1, <1>7, KnownStays DEF build_malloc, Go, shared, TypeOK, Typed, Known
  <2> QED BY <2>2, <2>3 DEF Typed
<1>8. ASSUME NEW t \in Thread, build_fill(t) PROVE Typed'
  <2> DEFINE b == NextToFill(t)
             new == [address |-> com_blocks[t], blength |-> Size(b), copy |-> b]
             next == [com_blocks[t] EXCEPT !.offset = @ + Size(b)]
  <2>1. b \in Block
    <3>1. Len(tc_desc[t]) \in Nat /\ Len(tc_desc[t]) + 1 <= Len(olist)
      BY <1>1, <1>2, <1>8, SMTT(30) DEF build_fill, MoreToFill, Typed, Known, TypeOK
    <3> QED BY <1>1, <1>2, <3>1 DEF NextToFill, TypeOK
  <2>2. com_blocks[t] \in Address
    BY <1>1 DEF TypeOK
  <2>3. new \in Entry /\ next \in Address
    BY <2>1, <2>2, SumOfDoublewords DEF Entry, Address
  <2>4. /\ tc_desc' = [tc_desc EXCEPT ![t] = Append(@, new)]
        /\ com_blocks' = [com_blocks EXCEPT ![t] = next]
        /\ UNCHANGED <<shared, tcda_key, specific, heap, pc, calls, tblk_addr, blk_num,
                       blk_count, blk_total_size, given>>
    BY <1>8 DEF build_fill
  <2> HIDE DEF new, next
  <2>5. tc_desc' \in [Thread -> Seq(Entry)]
    BY <1>1, <2>3, <2>4 DEF TypeOK
  <2>6. TypeOK'
    BY <1>1, <2>3, <2>4, <2>5 DEF TypeOK, shared
  <2>7. \A u \in Thread : Known(u)'
    BY <1>1, <2>4, KnownStays DEF shared, Typed
  <2> QED BY <2>6, <2>7 DEF Typed
<1>9. ASSUME NEW t \in Thread, build_put(t) PROVE Typed'
  <2>1. TypeOK'
    BY <1>1, <1>9 DEF build_put, Go, shared, locals, TypeOK
  <2>2. \A u \in Thread : Known(u)'
    BY <1>1, <1>9, KnownStays DEF build_put, Go, shared, locals, TypeOK, Typed
  <2> QED BY <2>1, <2>2 DEF Typed
<1>10. ASSUME NEW t \in Thread, finish(t) PROVE Typed'
  <2> DEFINE n == blk_num[t]
             b == tblk_addr[t]
             table == Extended(tc_desc[t], n)
             new == [address |-> [piece |-> Len(heap) + 1, offset |-> 0],
                     blength |-> Size(b), copy |-> b]
             after == IF table[n].address = NoBlock THEN [table EXCEPT ![n] = new] ELSE table
  <2>1. n \in 1 .. Len(olist) /\ b \in Block
    BY <1>1, <1>2, <1>10 DEF finish, Typed, Known
  <2>2. table \in Seq(Entry) /\ n \in 1 .. Len(table)
    <3>1. tc_desc[t] \in Seq(Entry) /\ n \in Nat /\ n >= 1
      BY <1>1, <2>1 DEF TypeOK
    <3> HIDE DEF n
    <3>2. /\ Extended(tc_desc[t], n) \in Seq(Entry)
          /\ Len(table) = IF Len(tc_desc[t]) < n THEN n ELSE Len(tc_desc[t])
          /\ Len(tc_desc[t]) \in Nat
      BY <3>1, ExtendedIsTable
    <3> HIDE DEF table
    <3> QED BY <3>1, <3>2 DEF table
  <2>3. new \in Entry
    BY <1>2, <2>1 DEF Entry, Address
  <2>4. after \in Seq(Entry) /\ n \in 1 .. Len(after)
    <3> HIDE DEF table, new, n
    <3> QED BY <2>2, <2>3
  <2>5. after[n].address \in Address
    <3> HIDE DEF after, n
    <3>1. after[n] \in Entry
      BY <2>4
    <3> QED BY <3>1 DEF Entry
  <2>6. /\ heap' = IF table[n].address = NoBlock THEN Append(heap, Size(b)) ELSE heap
        /\ specific' = [specific EXCEPT ![t].blocks = after]
        /\ given' = [given EXCEPT ![t][b] = after[n].address]
    BY <1>10 DEF finish
  <2>7. heap' \in Seq(Doublewords)
    BY <1>1, <2>1, <2>6 DEF TypeOK
  <2> HIDE DEF after, n, b, table
  <2>8. specific' \in [Thread -> [key : Nat, blocks : Seq(Entry)]]
    BY <1>1, <2>4, <2>6 DEF TypeOK
  <2>9. given' \in [Thread -> [Block -> Address]]
    BY <1>1, <2>1, <2>5, <2>6 DEF TypeOK
  <2>12. /\ pc' \in [Thread -> Pc] /\ tblk_addr' \in [Thread -> Block \cup {"none"}]
         /\ blk_num' \in [Thread -> Nat] /\ blk_count' \in [Thread -> Nat]
         /\ blk_total_size' \in [Thread -> Doublewords]
         /\ com_blocks' \in [Thread -> Address]
    BY <1>1, <1>10, EmptyIsEntry DEF finish, Go, TypeOK
  <2>13. tc_desc' \in [Thread -> Seq(Entry)] /\ UNCHANGED <<shared, tcda_key, calls>>
    BY <1>1, <1>10 DEF finish, TypeOK
  <2>10. TypeOK'
    BY <1>1, <2>7, <2>8, <2>9, <2>12, <2>13 DEF shared, TypeOK
  <2>11. \A u \in Thread : Known(u)'
    BY <1>1, <1>10, KnownStays DEF finish, Go, shared, TypeOK, Typed
  <2> QED BY <2>10, <2>11 DEF Typed
<1>11. ASSUME NEW t \in Thread, destroy_taskcom_desc(t) PROVE Typed'
  <2>1. TypeOK'
    BY <1>1, <1>11 DEF destroy_taskcom_desc, NoTable, Go, shared, locals, TypeOK
  <2>2. \A u \in Thread : Known(u)'
    BY <1>1, <1>11, KnownStays DEF destroy_taskcom_desc, Go, shared, locals, TypeOK, Typed
  <2> QED BY <2>1, <2>2 DEF Typed
<1>12. CASE UNCHANGED vars
  BY <1>12 DEF vars, shared, Typed, TypeOK, Known
<1> QED BY <1>3, <1>4, <1>5, <1>6, <1>7, <1>8, <1>9, <1>10, <1>11, <1>12 DEF Next, InCall

(* Everything always has its type, and sizes and addresses are multiples   *)
(* of a doubleword.                                                        *)
THEOREM TypeCorrect == Spec => []TypeOK
<1>1. Init => Typed
  BY EmptyIsEntry, DoublewordsInNat, TaskCommonAssumption
  DEF Init, Typed, TypeOK, Known, NoTable
<1>2. Typed => TypeOK
  BY DEF Typed
<1> QED BY <1>1, <1>2, TypedInductive, PTL DEF Spec

-----------------------------------------------------------------------------
(* RightBlock and StaysPut need to know where a thread's table is in each  *)
(* state of its call, and that no block has two numbers.                   *)

Distinct == \A i, j \in DOMAIN olist : olist[i] = olist[j] => i = j

TableOf(t) ==
  /\ specific[t] = NoTable \/ (tcda_key # 0 /\ specific[t].key = tcda_key)
  /\ pc[t] \in {"get", "build", "malloc", "fill"} => specific[t] = NoTable
  /\ pc[t] \in {"build", "malloc", "fill", "finish"} => tcda_key # 0
  /\ pc[t] \notin {"fill", "finish"} => tc_desc[t] = <<>>
  /\ pc[t] = "finish" => specific[t].key = tcda_key /\ tc_desc[t] = specific[t].blocks

(* RightBlock, taken apart.                                                *)
SpecificRight(t) ==
  \A n \in DOMAIN specific[t].blocks : specific[t].blocks[n].address # NoBlock =>
    /\ n \in DOMAIN olist
    /\ specific[t].blocks[n].copy = olist[n]
    /\ specific[t].blocks[n].blength = Size(olist[n])
DescRight(t) ==
  \A n \in DOMAIN tc_desc[t] : tc_desc[t][n].address # NoBlock =>
    /\ n \in DOMAIN olist
    /\ tc_desc[t][n].copy = olist[n]
    /\ tc_desc[t][n].blength = Size(olist[n])
GivenRight(t) ==
  \A b \in Block : pc[t] # "gone" /\ given[t][b] # NoBlock =>
    \E n \in DOMAIN specific[t].blocks :
      /\ n \in DOMAIN olist /\ olist[n] = b
      /\ specific[t].blocks[n].address = given[t][b]
Right(t) == TableOf(t) /\ SpecificRight(t) /\ DescRight(t) /\ GivenRight(t)

TablesRight == Typed /\ Distinct /\ \A t \in Thread : Right(t)

LEMMA RightBlockApart ==
  RightBlock <=> \A t \in Thread : SpecificRight(t) /\ DescRight(t) /\ GivenRight(t)
BY DEF RightBlock, SpecificRight, DescRight, GivenRight

(* What is right stays right while other blocks are numbered.              *)
Grows ==
  /\ DOMAIN olist \subseteq DOMAIN olist'
  /\ \A n \in DOMAIN olist : olist'[n] = olist[n]

SameTable(t) == UNCHANGED <<specific[t], tc_desc[t], given[t], pc[t]>>

LEMMA RightStays ==
  ASSUME NEW t \in Thread, Right(t), Grows,
         SameTable(t),
         tcda_key' = tcda_key \/ (tcda_key = 0 /\ tcda_key' # 0)
  PROVE  Right(t)'
<1>1. TableOf(t)'
  BY DEF SameTable, Right, TableOf, NoTable
<1>2. SpecificRight(t)'
  BY DEF SameTable, Right, SpecificRight, Grows
<1>3. DescRight(t)'
  BY DEF SameTable, Right, DescRight, Grows
<1>4. GivenRight(t)'
  BY DEF SameTable, Right, GivenRight, Grows
<1> QED BY <1>1, <1>2, <1>3, <1>4 DEF Right

LEMMA TablesRightInductive == TablesRight /\ [Next]_vars => TablesRight'
<1> SUFFICES ASSUME TablesRight, [Next]_vars PROVE TablesRight'
  OBVIOUS
<1>1. TypeOK /\ Typed /\ Distinct /\ Typed' /\ TypeOK'
  BY TypedInductive DEF TablesRight, Typed
<1>2. Len(olist) \in Nat /\ DOMAIN olist = 1 .. Len(olist)
  BY <1>1 DEF TypeOK
<1>3. \A t \in Thread : Right(t)
  BY DEF TablesRight
<1>4. ASSUME olist' = olist PROVE Grows /\ Distinct'
  BY <1>1, <1>4 DEF Grows, Distinct
<1>5. ASSUME NEW t \in Thread, NEW b \in Block, _taskcom_address(t, b) PROVE TablesRight'
  <2>1. Grows /\ Distinct'
    <3>1. CASE \E n \in DOMAIN olist : olist[n] = b
      BY <1>4, <1>5, <3>1 DEF _taskcom_address, shared
    <3>2. CASE ~\E n \in DOMAIN olist : olist[n] = b
      <4>1. olist' = Append(olist, b)
        BY <1>5, <3>2 DEF _taskcom_address
      <4>2. /\ DOMAIN olist' = 1 .. Len(olist) + 1 /\ olist'[Len(olist) + 1] = b
            /\ \A n \in DOMAIN olist : olist'[n] = olist[n]
        BY <1>1, <4>1, SMTT(30) DEF TypeOK
      <4> QED BY <1>1, <1>2, <3>2, <4>2 DEF Grows, Distinct
    <3> QED BY <3>1, <3>2
  <2>2. UNCHANGED <<specific, tc_desc, given, tcda_key>> /\ pc[t] = "user" /\ pc'[t] = "key"
    BY <1>1, <1>5 DEF _taskcom_address, Go, TypeOK
  <2>3. \A u \in Thread \ {t} : SameTable(u)
    BY <1>1, <1>5, <2>2 DEF SameTable, _taskcom_address, Go, TypeOK
  <2>4. Right(t)'
    <3>1. Right(t)
      BY <1>3
    <3>2. TableOf(t)'
      BY <2>2, <3>1 DEF TableOf, Right
    <3>3. SpecificRight(t)' /\ DescRight(t)'
      BY <2>1, <2>2, <3>1 DEF SpecificRight, DescRight, Right, Grows
    <3>4. GivenRight(t)'
      BY <2>1, <2>2, <3>1 DEF GivenRight, Right, Grows
    <3> QED BY <3>2, <3>3, <3>4 DEF Right
  <2>5. \A u \in Thread \ {t} : Right(u)'
    <3>1. tcda_key' = tcda_key
      BY <2>2
    <3> QED BY <1>3, <2>1, <2>3, <3>1, RightStays
  <2> QED BY <1>1, <2>1, <2>4, <2>5 DEF TablesRight
<1>6. ASSUME NEW t \in Thread, olist' = olist,
             tcda_key' = tcda_key \/ (tcda_key = 0 /\ tcda_key' # 0),
             \A u \in Thread \ {t} : SameTable(u),
             TableOf(t)', SpecificRight(t)', DescRight(t)', GivenRight(t)'
      PROVE  TablesRight'
  <2>1. \A u \in Thread \ {t} : Right(u)'
    BY <1>3, <1>4, <1>6, RightStays
  <2>2. Right(t)'
    BY <1>6 DEF Right
  <2> QED BY <1>1, <1>4, <1>6, <2>1, <2>2 DEF TablesRight
<1>7. ASSUME NEW t \in Thread, look_for_key(t) PROVE TablesRight'
  <2>1. /\ olist' = olist /\ tcda_key' = tcda_key /\ UNCHANGED <<specific, given>>
        /\ pc[t] = "key" /\ pc'[t] \in {"get", "finish", "build"}
        /\ pc'[t] = "get" <=> tcda_key = 0
        /\ pc'[t] = "finish" <=> HasTable(t)
        /\ tc_desc'[t] = IF HasTable(t) THEN specific[t].blocks ELSE <<>>
    BY <1>1, <1>7 DEF look_for_key, Go, shared, TypeOK, HasTable
  <2>2. \A u \in Thread \ {t} : SameTable(u)
    BY <1>1, <1>7, <2>1 DEF SameTable, look_for_key, Go, TypeOK
  <2>3. Right(t)
    BY <1>3
  <2>4. TableOf(t)'
    BY <2>1, <2>3 DEF Right, TableOf, HasTable, NoTable
  <2>5. SpecificRight(t)' /\ GivenRight(t)'
    BY <2>1, <2>3 DEF Right, SpecificRight, GivenRight
  <2>6. DescRight(t)'
    BY <2>1, <2>3 DEF Right, SpecificRight, DescRight
  <2> QED BY <1>6, <2>1, <2>2, <2>4, <2>5, <2>6
<1>8. ASSUME NEW t \in Thread, create_key(t) PROVE TablesRight'
  <2>1. /\ olist' = olist /\ tcda_key' # 0 /\ (tcda_key # 0 => tcda_key' = tcda_key)
        /\ UNCHANGED <<specific, given, tc_desc>>
        /\ pc[t] = "get" /\ pc'[t] = IF HasTable(t) THEN "finish" ELSE "build"
    BY <1>1, <1>8 DEF create_key, Go, shared, locals, TypeOK
  <2>2. \A u \in Thread \ {t} : SameTable(u)
    BY <1>1, <1>8, <2>1 DEF SameTable, create_key, Go, TypeOK
  <2>3. Right(t)
    BY <1>3
  <2>4. TableOf(t)'
    BY <2>1, <2>3 DEF Right, TableOf, HasTable, NoTable
  <2>5. SpecificRight(t)' /\ GivenRight(t)' /\ DescRight(t)'
    BY <2>1, <2>3 DEF Right, SpecificRight, GivenRight, DescRight
  <2> QED BY <1>6, <2>1, <2>2, <2>4, <2>5
<1>9. ASSUME NEW t \in Thread, build_taskcom_desc(t) \/ build_malloc(t) PROVE TablesRight'
  <2>1. /\ olist' = olist /\ UNCHANGED <<tcda_key, specific, given, tc_desc>>
        /\ pc[t] \in {"build", "malloc"} /\ pc'[t] \in {"malloc", "fill"}
    BY <1>1, <1>9 DEF build_taskcom_desc, build_malloc, Go, shared, TypeOK
  <2>2. \A u \in Thread \ {t} : SameTable(u)
    BY <1>1, <1>9, <2>1 DEF SameTable, build_taskcom_desc, build_malloc, Go, TypeOK
  <2>3. Right(t)
    BY <1>3
  <2>4. TableOf(t)'
    BY <2>1, <2>3 DEF Right, TableOf, NoTable
  <2>5. SpecificRight(t)' /\ GivenRight(t)' /\ DescRight(t)'
    BY <2>1, <2>3 DEF Right, SpecificRight, GivenRight, DescRight
  <2> QED BY <1>6, <2>1, <2>2, <2>4, <2>5
<1>10. ASSUME NEW t \in Thread, build_fill(t) PROVE TablesRight'
  <2> DEFINE n == Len(tc_desc[t]) + 1
             b == NextToFill(t)
             new == [address |-> com_blocks[t], blength |-> Size(b), copy |-> b]
  <2>1. n \in DOMAIN olist /\ b = olist[n] /\ tc_desc[t] \in Seq(Entry)
    BY <1>1, <1>2, <1>10 DEF build_fill, MoreToFill, NextToFill, Typed, Known, TypeOK
  <2>2. /\ UNCHANGED <<olist, tcda_key, specific, given, pc>> /\ pc[t] = "fill"
        /\ tc_desc' = [tc_desc EXCEPT ![t] = Append(@, new)]
    BY <1>10 DEF build_fill, shared
  <2>3. \A u \in Thread \ {t} : SameTable(u)
    BY <1>1, <2>2 DEF SameTable, TypeOK
  <2>4. Right(t)
    BY <1>3
  <2>5. TableOf(t)'
    BY <2>2, <2>4 DEF Right, TableOf, NoTable
  <2>6. SpecificRight(t)' /\ GivenRight(t)'
    BY <2>2, <2>4 DEF Right, SpecificRight, GivenRight
  <2>7. new.blength = Size(b) /\ new.copy = b
    OBVIOUS
  <2>8. tc_desc'[t] = Append(tc_desc[t], new)
    BY <1>1, <2>2 DEF TypeOK
  <2>9. /\ DOMAIN tc_desc'[t] = 1 .. n /\ tc_desc'[t][n] = new
        /\ \A i \in DOMAIN tc_desc[t] : tc_desc'[t][i] = tc_desc[t][i]
        /\ DOMAIN tc_desc[t] = 1 .. n - 1 /\ n \in Nat \ {0}
    <3> HIDE DEF new
    <3> QED BY <2>1, <2>8
  <2> HIDE DEF new, b
  <2>10. DescRight(t)'
    BY <2>1, <2>2, <2>4, <2>7, <2>9 DEF Right, DescRight
  <2> QED BY <1>6, <2>2, <2>3, <2>5, <2>6, <2>10
<1>11. ASSUME NEW t \in Thread, build_put(t) PROVE TablesRight'
  <2>1. /\ UNCHANGED <<olist, tcda_key, given, tc_desc>>
        /\ pc[t] = "fill" /\ pc'[t] = "finish"
        /\ specific'[t] = [key |-> tcda_key, blocks |-> tc_desc[t]]
    BY <1>1, <1>11 DEF build_put, Go, shared, locals, TypeOK
  <2>2. \A u \in Thread \ {t} : SameTable(u)
    BY <1>1, <1>11, <2>1 DEF SameTable, build_put, Go, TypeOK
  <2>3. Right(t)
    BY <1>3
  <2>4. specific[t].blocks = <<>>
    BY <2>1, <2>3 DEF Right, TableOf, NoTable
  <2>5. TableOf(t)'
    BY <2>1, <2>3 DEF Right, TableOf
  <2>6. SpecificRight(t)' /\ DescRight(t)'
    BY <2>1, <2>3 DEF Right, SpecificRight, DescRight
  <2>7. GivenRight(t)'
    BY <2>1, <2>3, <2>4 DEF Right, GivenRight
  <2> QED BY <1>6, <2>1, <2>2, <2>5, <2>6, <2>7
<1>12. ASSUME NEW t \in Thread, finish(t) PROVE TablesRight'
  <2> DEFINE n == blk_num[t]
             b == tblk_addr[t]
             old == tc_desc[t]
             table == Extended(old, n)
             new == [address |-> [piece |-> Len(heap) + 1, offset |-> 0],
                     blength |-> Size(b), copy |-> b]
             after == IF table[n].address = NoBlock THEN [table EXCEPT ![n] = new] ELSE table
  <2>1. n \in DOMAIN olist /\ n \in Nat \ {0} /\ olist[n] = b /\ b \in Block
    BY <1>1, <1>2, <1>12 DEF finish, Typed, Known
  <2>2. /\ UNCHANGED <<olist, tcda_key>> /\ pc[t] = "finish" /\ pc'[t] = "user"
        /\ specific' = [specific EXCEPT ![t].blocks = after]
        /\ given' = [given EXCEPT ![t][b] = after[n].address]
        /\ tc_desc' = [tc_desc EXCEPT ![t] = <<>>]
    BY <1>1, <1>12 DEF finish, Go, shared, TypeOK
  <2>3. \A u \in Thread \ {t} : SameTable(u)
    BY <1>1, <1>12, <2>2 DEF SameTable, finish, Go, TypeOK
  <2>4. Right(t)
    BY <1>3
  <2>5. old = specific[t].blocks /\ old \in Seq(Entry) /\ specific[t].key = tcda_key
    BY <1>1, <2>2, <2>4 DEF Right, TableOf, TypeOK
  <2>6. /\ table \in Seq(Entry) /\ n \in 1 .. Len(table) /\ DOMAIN old \subseteq DOMAIN table
        /\ \A i \in DOMAIN old : table[i] = old[i]
        /\ \A i \in DOMAIN table : i \notin DOMAIN old => table[i] = Empty
    <3> HIDE DEF n, old
    <3> QED BY <2>1, <2>5, ExtendedIsTable
  <2>7. new.blength = Size(b) /\ new.copy = b
    OBVIOUS
  <2>8. Empty.address = NoBlock
    BY DEF Empty
  <2> HIDE DEF table, new
  <2>9. /\ DOMAIN after = DOMAIN table /\ n \in DOMAIN after
        /\ \A i \in DOMAIN table \ {n} : after[i] = table[i]
        /\ after[n] = new \/ (after[n] = table[n] /\ table[n].address # NoBlock)
    BY <2>6
  <2> HIDE DEF after, n, b, old
  <2>10. /\ specific'[t].blocks = after /\ specific'[t].key = specific[t].key
         /\ tc_desc'[t] = <<>>
         /\ given'[t][b] = after[n].address
         /\ \A c \in Block \ {b} : given'[t][c] = given[t][c]
    BY <1>1, <2>1, <2>2 DEF TypeOK
  <2>11. TableOf(t)'
    BY <2>2, <2>4, <2>5, <2>10 DEF Right, TableOf
  <2>12. SpecificRight(t)'
    <3> SUFFICES ASSUME NEW i \in DOMAIN after, after[i].address # NoBlock
                 PROVE  i \in DOMAIN olist /\ after[i].copy = olist[i]
                          /\ after[i].blength = Size(olist[i])
      BY <2>2, <2>10 DEF SpecificRight
    <3>1. CASE i = n /\ after[n] = new
      BY <2>1, <2>7, <3>1
    <3>2. CASE after[i] = table[i]
      <4>1. i \in DOMAIN old /\ table[i] = old[i]
        BY <2>6, <2>8, <2>9, <3>2
      <4> QED BY <2>4, <2>5, <3>2, <4>1 DEF Right, SpecificRight
    <3> QED BY <2>9, <3>1, <3>2
  <2>13. DescRight(t)'
    BY <2>10 DEF DescRight
  <2>14. GivenRight(t)'
    <3> SUFFICES ASSUME NEW c \in Block, given'[t][c] # NoBlock
                 PROVE  \E i \in DOMAIN after : /\ i \in DOMAIN olist /\ olist[i] = c
                                                /\ after[i].address = given'[t][c]
      BY <2>2, <2>10 DEF GivenRight
    <3>1. CASE c = b
      BY <2>1, <2>9, <2>10, <3>1
    <3>2. CASE c # b
      <4>1. given[t][c] = given'[t][c]
        BY <2>10, <3>2
      <4>2. PICK i \in DOMAIN old : i \in DOMAIN olist /\ olist[i] = c
                                      /\ old[i].address = given[t][c]
        BY <2>2, <2>4, <2>5, <4>1 DEF Right, GivenRight
      <4>3. i # n
        BY <2>1, <3>2, <4>2
      <4> QED BY <2>6, <2>9, <4>1, <4>2, <4>3
    <3> QED BY <3>1, <3>2
  <2> QED BY <1>6, <2>2, <2>3, <2>11, <2>12, <2>13, <2>14
<1>13. ASSUME NEW t \in Thread, destroy_taskcom_desc(t) PROVE TablesRight'
  <2>1. /\ UNCHANGED <<olist, tcda_key, given, tc_desc>>
        /\ pc[t] = "user" /\ pc'[t] = "gone" /\ specific'[t] = NoTable
    BY <1>1, <1>13 DEF destroy_taskcom_desc, Go, shared, locals, TypeOK
  <2>2. \A u \in Thread \ {t} : SameTable(u)
    BY <1>1, <1>13, <2>1 DEF SameTable, destroy_taskcom_desc, Go, TypeOK
  <2>3. Right(t)
    BY <1>3
  <2>4. TableOf(t)'
    BY <2>1, <2>3 DEF Right, TableOf
  <2>5. SpecificRight(t)' /\ DescRight(t)' /\ GivenRight(t)'
    BY <2>1, <2>3 DEF Right, SpecificRight, DescRight, GivenRight, NoTable
  <2> QED BY <1>6, <2>1, <2>2, <2>4, <2>5
<1>14. CASE UNCHANGED vars
  <2>1. \A u \in Thread : Right(u)'
    BY <1>3, <1>4, <1>14, RightStays DEF vars, SameTable
  <2> QED BY <1>1, <1>4, <1>14, <2>1 DEF TablesRight, vars
<1> QED BY <1>5, <1>7, <1>8, <1>9, <1>10, <1>11, <1>12, <1>13, <1>14 DEF Next, InCall

LEMMA TablesRightInitially == Init => TablesRight
<1> SUFFICES ASSUME Init PROVE TablesRight
  OBVIOUS
<1>1. Typed
  BY EmptyIsEntry, DoublewordsInNat, TaskCommonAssumption
  DEF Init, Typed, TypeOK, Known, NoTable
<1>2. Distinct
  BY DEF Init, Distinct
<1>3. ASSUME NEW t \in Thread PROVE Right(t)
  <2>1. /\ specific[t] = NoTable /\ tc_desc[t] = <<>> /\ pc[t] = "user"
        /\ \A b \in Block : given[t][b] = NoBlock
    BY DEF Init
  <2>2. specific[t].blocks = <<>>
    BY <2>1 DEF NoTable
  <2> QED BY <2>1, <2>2 DEF Right, TableOf, SpecificRight, DescRight, GivenRight
<1> QED BY <1>1, <1>2, <1>3 DEF TablesRight

LEMMA TablesRightAlways == Spec => []TablesRight
BY TablesRightInitially, TablesRightInductive, PTL DEF Spec

(* A block's number is its place in every table, and what a thread was     *)
(* given for a block is the address of that entry.                         *)
THEOREM TablesMatch == Spec => []RightBlock
<1>1. TablesRight => RightBlock
  BY RightBlockApart DEF TablesRight, Right
<1> QED BY <1>1, TablesRightAlways, PTL

(* A thread's copy of a block never moves.                                 *)
THEOREM CopiesStay == Spec => StaysPut
<1> DEFINE Put == \A t \in Thread, b \in Block :
                    given[t][b] # NoBlock => given'[t][b] = given[t][b]
<1>1. TablesRight /\ [Next]_vars => [Put]_vars
  <2> SUFFICES ASSUME TablesRight, [Next]_vars,
                      NEW t \in Thread, NEW b \in Block, given[t][b] # NoBlock
               PROVE  given'[t][b] = given[t][b]
    OBVIOUS
  <2>1. TypeOK /\ Typed /\ Distinct /\ Right(t)
    BY DEF TablesRight, Typed
  <2>2. ASSUME NEW u \in Thread, finish(u) PROVE given'[t][b] = given[t][b]
    <3> DEFINE n == blk_num[u]
               c == tblk_addr[u]
               table == Extended(tc_desc[u], n)
    <3>1. /\ n \in DOMAIN olist /\ n \in Nat /\ olist[n] = c /\ c \in Block
          /\ pc[u] = "finish"
      BY <2>1, <2>2 DEF finish, Typed, Known, TypeOK
    <3>2. CASE t # u \/ b # c
      BY <2>1, <2>2, <3>1, <3>2 DEF finish, TypeOK
    <3>3. CASE t = u /\ b = c
      <4>1. tc_desc[t] = specific[t].blocks /\ tc_desc[t] \in Seq(Entry)
        BY <2>1, <3>1, <3>3 DEF Right, TableOf, TypeOK
      <4>2. n \in DOMAIN tc_desc[t] /\ tc_desc[t][n].address = given[t][b]
        BY <2>1, <3>1, <3>3, <4>1 DEF Right, GivenRight, Distinct
      <4>3. table[n] = tc_desc[t][n]
        BY <3>1, <3>3, <4>1, <4>2, ExtendedIsTable
      <4>4. given' = [given EXCEPT ![t][b] = table[n].address]
        BY <2>2, <3>3, <4>2, <4>3 DEF finish
      <4> QED BY <2>1, <4>2, <4>3, <4>4 DEF TypeOK
    <3> QED BY <3>2, <3>3
  <2>3. CASE UNCHANGED given
    BY <2>3
  <2> QED BY <2>2, <2>3
      DEF Next, InCall, _taskcom_address, look_for_key, create_key, build_taskcom_desc,
          build_malloc, build_fill, build_put, destroy_taskcom_desc, vars
<1> QED BY <1>1, TablesRightAlways, PTL DEF Spec, StaysPut

-----------------------------------------------------------------------------
(* Apart needs the sum of the sizes of the first n blocks, for every n: f. *)
(* What a thread has counted is such a sum, and so is its place in the     *)
(* memory it fills; the sums only grow, so it stays inside.                *)

Totals(f) ==
  /\ f \in [0 .. Len(olist) -> Nat]
  /\ f[0] = 0 /\ f[Len(olist)] = total_tcom_size
  /\ \A n \in 1 .. Len(olist) : f[n] = f[n - 1] + Size(olist[n])
  /\ \A m, n \in 0 .. Len(olist) : m <= n => f[m] <= f[n]

Counted(t, f) == pc[t] \in {"malloc", "fill"} => blk_total_size[t] = f[blk_count[t]]

Filling(t, f) == pc[t] = "fill" =>
  /\ Len(tc_desc[t]) <= blk_count[t]
  /\ com_blocks[t].piece \in DOMAIN heap
  /\ heap[com_blocks[t].piece] = blk_total_size[t]
  /\ com_blocks[t].offset = f[Len(tc_desc[t])]
  /\ \A e \in Allocated(t) : /\ e.address.piece = com_blocks[t].piece
                             /\ End(e) <= com_blocks[t].offset

(* The copies of one thread, and the pieces of memory it has.              *)
Inside(t) ==
  /\ \A e \in Allocated(t) : e.address.piece \in DOMAIN heap /\ End(e) <= heap[e.address.piece]
  /\ \A e, g \in Allocated(t) : Overlap(e, g) => e = g

Mine(t) == {e.address.piece : e \in Allocated(t)}
             \cup (IF pc[t] = "fill" THEN {com_blocks[t].piece} ELSE {})

Owned == \A t, u \in Thread : t # u => Mine(t) \cap Mine(u) = {}

Memory ==
  /\ TablesRight
  /\ \A t \in Thread : Inside(t)
  /\ Owned
  /\ \E f : Totals(f) /\ \A t \in Thread : Counted(t, f) /\ Filling(t, f)

LEMMA EntriesTyped ==
  ASSUME TypeOK, NEW t \in Thread, NEW e \in Entries(t)
  PROVE  e \in Entry
<1>1. specific[t].blocks \in Seq(Entry) /\ tc_desc[t] \in Seq(Entry)
  BY DEF TypeOK
<1>2. CASE \E n \in DOMAIN specific[t].blocks : e = specific[t].blocks[n]
  BY <1>1, <1>2
<1>3. CASE \E n \in DOMAIN tc_desc[t] : e = tc_desc[t][n]
  BY <1>1, <1>3
<1> QED BY <1>2, <1>3 DEF Entries

HeapGrows ==
  /\ DOMAIN heap \subseteq DOMAIN heap'
  /\ \A p \in DOMAIN heap : heap'[p] = heap[p]

LEMMA InsideStays ==
  ASSUME NEW t \in Thread, Inside(t), HeapGrows, Allocated(t)' \subseteq Allocated(t)
  PROVE  Inside(t)'
BY DEF Inside, HeapGrows, Overlap, End

(* A thread that gets memory gets a piece nobody has.                      *)
LEMMA OwnedStays ==
  ASSUME Owned, TypeOK, NEW t \in Thread,
         \A u \in Thread : Mine(u) \subseteq DOMAIN heap,
         \A u \in Thread \ {t} : Mine(u)' \subseteq Mine(u),
         Mine(t)' \subseteq Mine(t) \cup {Len(heap) + 1}
  PROVE  Owned'
<1>1. Len(heap) + 1 \notin DOMAIN heap
  BY DEF TypeOK
<1> QED BY <1>1 DEF Owned

LEMMA MineInHeap ==
  ASSUME NEW t \in Thread, Inside(t), NEW f, Filling(t, f)
  PROVE  Mine(t) \subseteq DOMAIN heap
BY DEF Inside, Filling, Mine

LEMMA MineShrinks ==
  ASSUME NEW t \in Thread, Allocated(t)' \subseteq Allocated(t),
         pc'[t] = "fill" => pc[t] = "fill" /\ com_blocks'[t].piece = com_blocks[t].piece
  PROVE  Mine(t)' \subseteq Mine(t)
BY DEF Mine

(* One thread's step: what the others have is as it was.                   *)
LEMMA FillingStays ==
  ASSUME NEW t \in Thread, NEW f, Counted(t, f), Filling(t, f), HeapGrows,
         UNCHANGED <<pc[t], com_blocks[t], tc_desc[t], specific[t], blk_count[t],
                     blk_total_size[t]>>
  PROVE  Counted(t, f)' /\ Filling(t, f)' /\ Allocated(t)' = Allocated(t) /\ Mine(t)' = Mine(t)
<1>1. Allocated(t)' = Allocated(t)
  BY DEF Allocated, Entries
<1>2. Mine(t)' = Mine(t)
  BY <1>1 DEF Mine
<1>3. Counted(t, f)'
  BY DEF Counted
<1>4. Filling(t, f)'
  BY <1>1 DEF Filling, HeapGrows, End
<1> QED BY <1>1, <1>2, <1>3, <1>4

SameThread(t) == UNCHANGED <<pc[t], com_blocks[t], tc_desc[t], specific[t], blk_count[t],
                             blk_total_size[t]>>

LEMMA TotalsExtended ==
  ASSUME TypeOK, NEW f, Totals(f), NEW b \in Block, olist' = Append(olist, b),
         total_tcom_size' = total_tcom_size + Size(b)
  PROVE  \E g : Totals(g)' /\ \A n \in 0 .. Len(olist) : g[n] = f[n]
<1> DEFINE N == Len(olist)
<1> PICK g : g = [n \in 0 .. N + 1 |-> IF n <= N THEN f[n] ELSE f[N] + Size(b)]
  OBVIOUS
<1>1. N \in Nat /\ Size(b) \in Nat
  BY SizeIsDoublewords, DoublewordsInNat DEF TypeOK
<1>2. /\ f \in [0 .. N -> Nat] /\ f[0] = 0 /\ f[N] = total_tcom_size
      /\ \A n \in 1 .. N : f[n] = f[n - 1] + Size(olist[n])
      /\ \A m, n \in 0 .. N : m <= n => f[m] <= f[n]
  BY DEF Totals
<1>3. /\ Len(olist') = N + 1 /\ olist'[N + 1] = b
      /\ \A n \in 1 .. N : olist'[n] = olist[n]
  BY DEF TypeOK
<1>4. g \in [0 .. N + 1 -> Nat] /\ g[0] = 0 /\ g[N + 1] = total_tcom_size'
  BY <1>1, <1>2
<1>5. \A n \in 1 .. N + 1 : g[n] = g[n - 1] + Size(olist'[n])
  <2> TAKE n \in 1 .. N + 1
  <2>1. CASE n <= N
    BY <1>1, <1>2, <1>3, <2>1
  <2>2. CASE n = N + 1
    BY <1>1, <1>3, <2>2
  <2> QED BY <1>1, <2>1, <2>2
<1>7. \A n \in 0 .. N : g[n] = f[n]
  BY <1>1
<1>6. \A m, n \in 0 .. N + 1 : m <= n => g[m] <= g[n]
  <2>1. \A n \in 0 .. N : g[n] \in Nat /\ g[n] <= g[N + 1]
    <3>1. g[N + 1] = f[N] + Size(b) /\ f[N] \in Nat
      BY <1>1, <1>2
    <3>2. \A n \in 0 .. N : f[n] \in Nat /\ f[n] <= f[N]
      BY <1>1, <1>2
    <3> QED BY <1>1, <1>7, <3>1, <3>2
  <2>2. \A n \in 0 .. N + 1 : n \in 0 .. N \/ n = N + 1
    BY <1>1
  <2> QED BY <1>1, <1>2, <1>4, <1>7, <2>1, <2>2
<1>8. Totals(g)'
  BY <1>3, <1>4, <1>5, <1>6 DEF Totals, Size
<1> QED BY <1>7, <1>8

LEMMA MemoryInductive == Memory /\ [Next]_vars => Memory'
<1> SUFFICES ASSUME Memory, [Next]_vars PROVE Memory'
  OBVIOUS
<1>1. TablesRight' /\ TypeOK /\ TypeOK' /\ Typed /\ Owned
  BY TablesRightInductive DEF Memory, TablesRight, Typed
<1>2. PICK f : Totals(f) /\ \A t \in Thread : Counted(t, f) /\ Filling(t, f)
  BY DEF Memory
<1>3. \A t \in Thread : /\ Inside(t) /\ Right(t) /\ Known(t)
                        /\ Mine(t) \subseteq DOMAIN heap
  BY <1>2, MineInHeap DEF Memory, TablesRight, Typed
<1>4. Len(heap) \in Nat /\ DOMAIN heap = 1 .. Len(heap)
  BY <1>1 DEF TypeOK
(* What is left to show of a step of t that leaves the cross reference.    *)
<1>5. ASSUME NEW t \in Thread, UNCHANGED shared, HeapGrows,
             \A u \in Thread \ {t} : SameThread(u),
             Inside(t)', Mine(t)' \subseteq Mine(t) \cup {Len(heap) + 1},
             Counted(t, f)', Filling(t, f)'
      PROVE  Memory'
  <2>1. Totals(f)'
    BY <1>2, <1>5 DEF Totals, shared
  <2>2. ASSUME NEW u \in Thread \ {t}
        PROVE  Inside(u)' /\ Mine(u)' \subseteq Mine(u) /\ Counted(u, f)' /\ Filling(u, f)'
    <3>1. /\ Counted(u, f)' /\ Filling(u, f)' /\ Allocated(u)' = Allocated(u)
          /\ Mine(u)' = Mine(u)
      BY <1>2, <1>5, <2>2, FillingStays DEF SameThread
    <3> QED BY <1>3, <1>5, <3>1, InsideStays
  <2>3. Owned'
    BY <1>1, <1>3, <1>5, <2>2, OwnedStays
  <2>4. \A u \in Thread : Inside(u)' /\ Counted(u, f)' /\ Filling(u, f)'
    BY <1>5, <2>2
  <2> QED BY <1>1, <2>1, <2>3, <2>4 DEF Memory
<1>6. ASSUME NEW t \in Thread, UNCHANGED <<shared, heap>>,
             \A u \in Thread \ {t} : SameThread(u),
             Allocated(t)' \subseteq Allocated(t), pc'[t] # "fill", Counted(t, f)'
      PROVE  Memory'
  <2>1. HeapGrows
    BY <1>6 DEF HeapGrows
  <2>2. Inside(t)'
    BY <1>3, <1>6, <2>1, InsideStays
  <2>3. Mine(t)' \subseteq Mine(t)
    BY <1>6, MineShrinks
  <2>4. Filling(t, f)'
    BY <1>6 DEF Filling
  <2> QED BY <1>5, <1>6, <2>1, <2>2, <2>3, <2>4
<1>7. ASSUME NEW t \in Thread, NEW b \in Block, _taskcom_address(t, b) PROVE Memory'
  <2>1. /\ UNCHANGED <<heap, specific, tc_desc, com_blocks, blk_count, blk_total_size>>
        /\ pc[t] = "user" /\ pc'[t] = "key"
    BY <1>1, <1>7 DEF _taskcom_address, Go, TypeOK
  <2>2. \A u \in Thread \ {t} : SameThread(u)
    BY <1>1, <1>7, <2>1 DEF _taskcom_address, Go, TypeOK, SameThread
  <2>3. \A u \in Thread : Allocated(u)' = Allocated(u)
    BY <2>1 DEF Allocated, Entries
  <2>4. HeapGrows
    BY <2>1 DEF HeapGrows
  <2>5. \A u \in Thread : Inside(u)'
    BY <1>3, <2>3, <2>4, InsideStays
  <2>6. \A u \in Thread : Mine(u)' \subseteq Mine(u)
    <3>1. Mine(t)' \subseteq Mine(t)
      BY <2>1, <2>3, MineShrinks
    <3>2. \A u \in Thread \ {t} : Mine(u)' \subseteq Mine(u)
      BY <2>2, <2>3, MineShrinks DEF SameThread
    <3> QED BY <3>1, <3>2
  <2>7. Owned'
    BY <1>1, <1>3, <2>6, OwnedStays
  <2>8. PICK g : Totals(g)' /\ \A n \in 0 .. Len(olist) : g[n] = f[n]
    <3>1. CASE \E n \in DOMAIN olist : olist[n] = b
      <4>1. UNCHANGED shared
        BY <1>7, <3>1 DEF _taskcom_address
      <4> QED BY <1>2, <4>1 DEF Totals, shared
    <3>2. CASE ~\E n \in DOMAIN olist : olist[n] = b
      <4>1. olist' = Append(olist, b) /\ total_tcom_size' = total_tcom_size + Size(b)
        BY <1>7, <3>2 DEF _taskcom_address
      <4> QED BY <1>1, <1>2, <4>1, TotalsExtended
    <3> QED BY <3>1, <3>2
  <2>9. ASSUME NEW u \in Thread PROVE Counted(u, g)' /\ Filling(u, g)'
    <3>1. CASE u = t
      BY <2>1, <3>1 DEF Counted, Filling
    <3>2. CASE u # t
      <4>1. Counted(u, f)' /\ Filling(u, f)' /\ SameThread(u)
        BY <1>2, <2>2, <2>4, <3>2, FillingStays DEF SameThread
      <4>2. pc[u] \in {"malloc", "fill"} => blk_count[u] \in 0 .. Len(olist)
        BY <1>1, <1>3 DEF Known, TypeOK
      <4>3. pc[u] = "fill" => Len(tc_desc[u]) \in 0 .. Len(olist)
        <5>1. Len(tc_desc[u]) \in Nat
          BY <1>1 DEF TypeOK
        <5> QED BY <1>1, <1>2, <4>2, <5>1 DEF Filling
      <4>4. Counted(u, g)'
        BY <2>8, <4>1, <4>2 DEF Counted, SameThread
      <4>5. Filling(u, g)'
        BY <2>8, <4>1, <4>3 DEF Filling, SameThread
      <4> QED BY <4>4, <4>5
    <3> QED BY <3>1, <3>2
  <2> QED BY <1>1, <2>5, <2>7, <2>8, <2>9 DEF Memory
<1>8. ASSUME NEW t \in Thread, look_for_key(t) PROVE Memory'
  <2>1. /\ UNCHANGED <<shared, heap, specific>> /\ pc'[t] \in {"get", "finish", "build"}
        /\ tc_desc'[t] \in {specific[t].blocks, <<>>}
    BY <1>1, <1>8 DEF look_for_key, Go, TypeOK
  <2>2. \A u \in Thread \ {t} : SameThread(u)
    BY <1>1, <1>8 DEF look_for_key, Go, TypeOK, SameThread
  <2>3. Allocated(t)' \subseteq Allocated(t)
    BY <2>1 DEF Allocated, Entries
  <2>4. Counted(t, f)'
    BY <2>1 DEF Counted
  <2> QED BY <1>6, <2>1, <2>2, <2>3, <2>4
<1>9. ASSUME NEW t \in Thread, create_key(t) PROVE Memory'
  <2>1. /\ UNCHANGED <<shared, heap, specific, tc_desc>> /\ pc'[t] \in {"finish", "build"}
    BY <1>1, <1>9 DEF create_key, Go, locals, TypeOK
  <2>2. \A u \in Thread \ {t} : SameThread(u)
    BY <1>1, <1>9 DEF create_key, Go, locals, TypeOK, SameThread
  <2>3. Allocated(t)' \subseteq Allocated(t)
    BY <2>1 DEF Allocated, Entries
  <2>4. Counted(t, f)'
    BY <2>1 DEF Counted
  <2> QED BY <1>6, <2>1, <2>2, <2>3, <2>4
<1>10. ASSUME NEW t \in Thread, build_taskcom_desc(t) PROVE Memory'
  <2>1. /\ UNCHANGED <<shared, heap, specific, tc_desc>> /\ pc'[t] = "malloc"
        /\ blk_count'[t] = Len(olist) /\ blk_total_size'[t] = total_tcom_size
    BY <1>1, <1>10 DEF build_taskcom_desc, Go, TypeOK
  <2>2. \A u \in Thread \ {t} : SameThread(u)
    BY <1>1, <1>10 DEF build_taskcom_desc, Go, TypeOK, SameThread
  <2>3. Allocated(t)' \subseteq Allocated(t)
    BY <2>1 DEF Allocated, Entries
  <2>4. Counted(t, f)'
    BY <1>2, <2>1 DEF Counted, Totals
  <2> QED BY <1>6, <2>1, <2>2, <2>3, <2>4
<1>11. ASSUME NEW t \in Thread, build_malloc(t) PROVE Memory'
  <2> DEFINE size == blk_total_size[t]
  <2>1. /\ UNCHANGED <<shared, specific, tc_desc, blk_count, blk_total_size>>
        /\ pc[t] = "malloc" /\ pc'[t] = "fill" /\ heap' = Append(heap, size)
        /\ com_blocks'[t] = [piece |-> Len(heap) + 1, offset |-> 0]
        /\ size \in Doublewords
    BY <1>1, <1>11 DEF build_malloc, Go, TypeOK
  <2>2. \A u \in Thread \ {t} : SameThread(u)
    BY <1>1, <1>11, <2>1 DEF build_malloc, Go, TypeOK, SameThread
  <2>3. /\ DOMAIN heap' = 1 .. Len(heap) + 1 /\ heap'[Len(heap) + 1] = size
        /\ \A p \in DOMAIN heap : heap'[p] = heap[p]
    BY <1>1, <2>1 DEF TypeOK
  <2>4. HeapGrows
    BY <1>4, <2>3 DEF HeapGrows
  <2>5. tc_desc[t] = <<>> /\ specific[t].blocks = <<>>
    BY <1>3, <2>1 DEF Right, TableOf, NoTable
  <2>6. Allocated(t)' = {}
    BY <2>1, <2>5 DEF Allocated, Entries
  <2>7. Inside(t)' /\ Mine(t)' \subseteq {Len(heap) + 1}
    BY <2>1, <2>6 DEF Inside, Mine
  <2>8. Counted(t, f)'
    BY <1>2, <2>1 DEF Counted
  <2>9. Filling(t, f)'
    <3>1. f[0] = 0 /\ blk_count[t] \in Nat
      BY <1>1, <1>2 DEF Totals, TypeOK
    <3> QED BY <1>4, <2>1, <2>3, <2>5, <2>6, <3>1 DEF Filling
  <2> QED BY <1>5, <2>1, <2>2, <2>4, <2>7, <2>8, <2>9
<1>12. ASSUME NEW t \in Thread, build_fill(t) PROVE Memory'
  <2> DEFINE k == Len(tc_desc[t])
             b == NextToFill(t)
             at == com_blocks[t]
             new == [address |-> at, blength |-> Size(b), copy |-> b]
  <2>1. /\ UNCHANGED <<shared, heap, specific, pc, blk_count, blk_total_size>>
        /\ pc[t] = "fill" /\ k < blk_count[t]
        /\ com_blocks'[t] = [at EXCEPT !.offset = @ + Size(b)]
        /\ tc_desc'[t] = Append(tc_desc[t], new)
    BY <1>1, <1>12 DEF build_fill, MoreToFill, TypeOK
  <2>2. \A u \in Thread \ {t} : SameThread(u)
    BY <1>1, <1>12, <2>1 DEF build_fill, TypeOK, SameThread
  <2>3. HeapGrows
    BY <2>1 DEF HeapGrows
  <2>4. /\ k \in Nat /\ k + 1 \in 1 .. Len(olist) /\ blk_count[t] \in 1 .. Len(olist)
        /\ k + 1 <= blk_count[t]
    BY <1>1, <1>3, <2>1 DEF Known, TypeOK
  <2>5. b = olist[k + 1] /\ b \in Block /\ Size(b) \in Nat
    <3>1. b = olist[k + 1]
      BY DEF NextToFill
    <3>2. b \in Block
      BY <1>1, <2>4, <3>1, SMTT(30) DEF TypeOK
    <3> QED BY <3>1, <3>2, SizeIsDoublewords, DoublewordsInNat
  <2>6. /\ at.offset = f[k] /\ at.piece \in DOMAIN heap
        /\ heap[at.piece] = f[blk_count[t]]
        /\ \A e \in Allocated(t) : e.address.piece = at.piece /\ End(e) <= at.offset
    BY <1>2, <2>1 DEF Filling, Counted
  <2>7. /\ f[k] \in Nat /\ f[k + 1] = f[k] + Size(b) /\ f[k + 1] <= f[blk_count[t]]
    <3> HIDE DEF k, b
    <3>1. /\ k \in 0 .. Len(olist) /\ k + 1 \in 0 .. Len(olist) /\ (k + 1) - 1 = k
          /\ blk_count[t] \in 0 .. Len(olist)
      BY <2>4
    <3>2. f[k] \in Nat /\ f[k + 1] = f[(k + 1) - 1] + Size(b)
      BY <1>2, <2>4, <2>5, <3>1 DEF Totals
    <3> QED BY <1>2, <2>4, <3>1, <3>2 DEF Totals
  <2>8. at \in Address /\ com_blocks'[t].piece = at.piece
        /\ com_blocks'[t].offset = at.offset + Size(b)
    BY <1>1, <2>1 DEF TypeOK, Address
  <2>9. /\ new.address = at /\ new.blength = Size(b) /\ End(new) = f[k + 1]
    BY <2>6, <2>7 DEF End
  <2>10. /\ Len(tc_desc'[t]) = k + 1 /\ tc_desc'[t][k + 1] = new
         /\ DOMAIN tc_desc'[t] = 1 .. k + 1 /\ DOMAIN tc_desc[t] = 1 .. k
         /\ \A i \in 1 .. k : tc_desc'[t][i] = tc_desc[t][i]
    <3>1. tc_desc[t] \in Seq(Entry)
      BY <1>1 DEF TypeOK
    <3> HIDE DEF new
    <3> QED BY <2>1, <3>1
  <2>11. Allocated(t)' \subseteq Allocated(t) \cup {new}
    <3> HIDE DEF new, k
    <3> QED BY <2>1, <2>4, <2>10 DEF Allocated, Entries
  <2> HIDE DEF new, k, b
  <2>12. \A e \in Allocated(t) : End(e) <= f[k] /\ ~Overlap(e, new) /\ ~Overlap(new, e)
    <3> TAKE e \in Allocated(t)
    <3>1. e \in Entry
      BY <1>1, EntriesTyped DEF Allocated
    <3>2. End(e) \in Nat /\ e.address.offset \in Nat /\ End(e) <= f[k]
      BY <2>6, <3>1, DoublewordsInNat DEF Entry, Address, End
    <3> QED BY <2>6, <2>7, <2>9, <3>2 DEF Overlap
  <2>13. Inside(t)'
    <3>1. \A e \in Allocated(t)' : e.address.piece = at.piece /\ End(e) <= heap[at.piece]
      <4> TAKE e \in Allocated(t)'
      <4>1. CASE e = new
        BY <2>6, <2>7, <2>9, <4>1
      <4>2. CASE e \in Allocated(t)
        BY <1>3, <2>6, <4>2 DEF Inside
      <4> QED BY <2>11, <4>1, <4>2
    <3>2. \A e, g \in Allocated(t)' : Overlap(e, g) => e = g
      BY <1>3, <2>11, <2>12 DEF Inside
    <3> QED BY <2>1, <2>6, <3>1, <3>2 DEF Inside, End, Overlap
  <2>14. Mine(t)' \subseteq Mine(t)
    <3>1. \A e \in Allocated(t)' : e.address.piece = at.piece
      BY <2>6, <2>9, <2>11
    <3> QED BY <2>1, <2>8, <3>1 DEF Mine
  <2>15. Counted(t, f)'
    BY <1>2, <2>1 DEF Counted
  <2>16. Filling(t, f)'
    <3>1. \A e \in Allocated(t)' : e.address.piece = at.piece /\ End(e) <= f[k + 1]
      <4> TAKE e \in Allocated(t)'
      <4>1. CASE e = new
        BY <2>5, <2>6, <2>7, <2>9, <4>1
      <4>2. CASE e \in Allocated(t)
        <5>1. e \in Entry
          BY <1>1, <4>2, EntriesTyped DEF Allocated
        <5>2. End(e) \in Nat
          BY <5>1, DoublewordsInNat DEF Entry, Address, End
        <5> QED BY <2>5, <2>6, <2>7, <2>12, <4>2, <5>2
      <4> QED BY <2>11, <4>1, <4>2
    <3>2. com_blocks'[t].offset = f[k + 1]
      BY <2>6, <2>7, <2>8
    <3>3. heap[at.piece] = blk_total_size[t]
      BY <1>2, <2>1 DEF Filling
    <3> QED BY <2>1, <2>4, <2>6, <2>8, <2>10, <3>1, <3>2, <3>3 DEF Filling, End
  <2> QED BY <1>5, <2>1, <2>2, <2>3, <2>13, <2>14, <2>15, <2>16
<1>13. ASSUME NEW t \in Thread, build_put(t) PROVE Memory'
  <2>1. /\ UNCHANGED <<shared, heap, tc_desc>> /\ pc'[t] = "finish"
        /\ specific'[t].blocks = tc_desc[t]
    BY <1>1, <1>13 DEF build_put, Go, locals, TypeOK
  <2>2. \A u \in Thread \ {t} : SameThread(u)
    BY <1>1, <1>13 DEF build_put, Go, locals, TypeOK, SameThread
  <2>3. Allocated(t)' \subseteq Allocated(t)
    BY <2>1 DEF Allocated, Entries
  <2>4. Counted(t, f)'
    BY <2>1 DEF Counted
  <2> QED BY <1>6, <2>1, <2>2, <2>3, <2>4
<1>14. ASSUME NEW t \in Thread, finish(t) PROVE Memory'
  <2> DEFINE n == blk_num[t]
             b == tblk_addr[t]
             old == tc_desc[t]
             table == Extended(old, n)
             new == [address |-> [piece |-> Len(heap) + 1, offset |-> 0],
                     blength |-> Size(b), copy |-> b]
             after == IF table[n].address = NoBlock THEN [table EXCEPT ![n] = new] ELSE table
  <2>1. /\ UNCHANGED shared /\ pc[t] = "finish" /\ pc'[t] = "user"
        /\ specific'[t].blocks = after /\ tc_desc'[t] = <<>>
        /\ heap' = IF table[n].address = NoBlock THEN Append(heap, Size(b)) ELSE heap
    BY <1>1, <1>14 DEF finish, Go, TypeOK
  <2>2. \A u \in Thread \ {t} : SameThread(u)
    BY <1>1, <1>14 DEF finish, Go, TypeOK, SameThread
  <2>3. n \in Nat \ {0} /\ b \in Block /\ Size(b) \in Doublewords /\ Size(b) \in Nat
    <3>1. n \in DOMAIN olist /\ b \in Block
      BY <1>3, <2>1 DEF Known
    <3>2. DOMAIN olist = 1 .. Len(olist) /\ Len(olist) \in Nat
      BY <1>1 DEF TypeOK
    <3> QED BY <3>1, <3>2, SizeIsDoublewords, DoublewordsInNat
  <2>4. old = specific[t].blocks /\ old \in Seq(Entry)
    BY <1>1, <1>3, <2>1 DEF Right, TableOf, TypeOK
  <2>5. /\ table \in Seq(Entry) /\ n \in DOMAIN table
        /\ \A i \in DOMAIN table : (i \in DOMAIN old /\ table[i] = old[i]) \/ table[i] = Empty
    <3> HIDE DEF n, old
    <3>1. /\ table \in Seq(Entry) /\ n \in 1 .. Len(table) /\ DOMAIN old = 1 .. Len(old)
          /\ \A i \in DOMAIN old : table[i] = old[i]
          /\ \A i \in DOMAIN table : i \notin DOMAIN old => table[i] = Empty
      <4>1. /\ table \in Seq(Entry)
            /\ Len(table) = IF Len(old) < n THEN n ELSE Len(old)
            /\ \A i \in 1 .. Len(old) : table[i] = old[i]
            /\ \A i \in 1 .. Len(table) : i > Len(old) => table[i] = Empty
        BY <2>3, <2>4, ExtendedIsTable
      <4> HIDE DEF table
      <4> QED BY <2>3, <2>4, <4>1
    <3> HIDE DEF table
    <3> QED BY <3>1
  <2>6. Empty.address = NoBlock
    BY DEF Empty
  <2>7. /\ new.address = [piece |-> Len(heap) + 1, offset |-> 0]
        /\ new.blength = Size(b) /\ End(new) = Size(b)
    BY <2>3 DEF End
  <2> HIDE DEF table, new, n, b, old
  <2>8. \A e \in Allocated(t)' :
          e \in Allocated(t) \/ (e = new /\ table[n].address = NoBlock)
    <3> TAKE e \in Allocated(t)'
    <3>1. e.address # NoBlock
      BY DEF Allocated
    <3>2. PICK i \in DOMAIN after : e = after[i]
      BY <2>1 DEF Allocated, Entries
    <3>3. i \in DOMAIN table /\ (e = table[i] \/ (e = new /\ table[n].address = NoBlock))
      BY <2>5, <3>2
    <3>4. CASE e = table[i]
      <4>1. i \in DOMAIN old /\ e = old[i]
        BY <2>5, <2>6, <3>1, <3>3, <3>4
      <4>2. e \in Entries(t)
        BY <2>4, <4>1 DEF Entries
      <4> QED BY <3>1, <4>2 DEF Allocated
    <3> QED BY <3>3, <3>4
  <2> HIDE DEF after
  <2>9. Counted(t, f)' /\ Filling(t, f)'
    BY <2>1 DEF Counted, Filling
  <2>10. CASE table[n].address # NoBlock
    <3>1. UNCHANGED <<shared, heap>> /\ Allocated(t)' \subseteq Allocated(t) /\ pc'[t] # "fill"
      BY <2>1, <2>8, <2>10
    <3> QED BY <1>6, <2>2, <2>9, <3>1
  <2>11. CASE table[n].address = NoBlock
    <3>1. /\ DOMAIN heap' = 1 .. Len(heap) + 1 /\ heap'[Len(heap) + 1] = Size(b)
          /\ \A p \in DOMAIN heap : heap'[p] = heap[p]
      <4>1. heap' = Append(heap, Size(b)) /\ heap \in Seq(Doublewords)
        BY <1>1, <2>1, <2>11 DEF TypeOK
      <4>2. PICK s \in Doublewords : s = Size(b)
        BY <2>3
      <4>3. heap' = Append(heap, s)
        BY <4>1, <4>2
      <4> QED BY <1>4, <4>1, <4>2, <4>3
    <3>2. HeapGrows
      BY <1>4, <3>1 DEF HeapGrows
    <3>3. Allocated(t)' \subseteq Allocated(t) \cup {new}
      BY <2>8
    <3>4. \A e \in Allocated(t) : ~Overlap(e, new) /\ ~Overlap(new, e)
      BY <1>3, <1>4, <2>7 DEF Inside, Overlap
    <3>5. Inside(t)'
      <4>1. \A e \in Allocated(t)' : /\ e.address.piece \in DOMAIN heap'
                                     /\ End(e) <= heap'[e.address.piece]
        <5> TAKE e \in Allocated(t)'
        <5>1. CASE e = new
          BY <1>4, <2>3, <2>7, <3>1, <5>1
        <5>2. CASE e \in Allocated(t)
          BY <1>3, <1>4, <3>1, <5>2 DEF Inside
        <5> QED BY <3>3, <5>1, <5>2
      <4>2. \A e, g \in Allocated(t)' : Overlap(e, g) => e = g
        BY <1>3, <3>3, <3>4 DEF Inside
      <4> QED BY <4>1, <4>2 DEF Inside, End, Overlap
    <3>6. Mine(t)' \subseteq Mine(t) \cup {Len(heap) + 1}
      BY <2>1, <2>7, <3>3 DEF Mine
    <3> QED BY <1>5, <2>1, <2>2, <2>9, <3>2, <3>5, <3>6
  <2> QED BY <2>10, <2>11
<1>15. ASSUME NEW t \in Thread, destroy_taskcom_desc(t) PROVE Memory'
  <2>1. /\ UNCHANGED <<shared, heap, tc_desc>> /\ pc'[t] = "gone"
        /\ specific'[t].blocks = <<>>
    BY <1>1, <1>15 DEF destroy_taskcom_desc, NoTable, Go, locals, TypeOK
  <2>2. \A u \in Thread \ {t} : SameThread(u)
    BY <1>1, <1>15 DEF destroy_taskcom_desc, Go, locals, TypeOK, SameThread
  <2>3. Allocated(t)' \subseteq Allocated(t)
    BY <2>1 DEF Allocated, Entries
  <2>4. Counted(t, f)'
    BY <2>1 DEF Counted
  <2> QED BY <1>6, <2>1, <2>2, <2>3, <2>4
<1>16. CASE UNCHANGED vars
  <2>1. UNCHANGED <<shared, heap>> /\ HeapGrows /\ \A u \in Thread : SameThread(u)
    BY <1>16 DEF vars, shared, HeapGrows, SameThread
  <2>2. Totals(f)'
    BY <1>2, <2>1 DEF Totals, shared
  <2>3. \A u \in Thread : /\ Counted(u, f)' /\ Filling(u, f)' /\ Mine(u)' = Mine(u)
                          /\ Allocated(u)' = Allocated(u)
    BY <1>2, <2>1, FillingStays DEF SameThread
  <2>4. \A u \in Thread : Inside(u)'
    BY <1>3, <2>1, <2>3, InsideStays
  <2>5. Owned'
    BY <1>1, <2>3 DEF Owned
  <2> QED BY <1>1, <2>2, <2>3, <2>4, <2>5 DEF Memory
<1> QED BY <1>7, <1>8, <1>9, <1>10, <1>11, <1>12, <1>13, <1>14, <1>15, <1>16 DEF Next, InCall

LEMMA MemoryInitially == Init => Memory
<1> SUFFICES ASSUME Init PROVE Memory
  OBVIOUS
<1>1. \A t \in Thread : Allocated(t) = {} /\ pc[t] = "user"
  <2> TAKE t \in Thread
  <2>1. specific[t].blocks = <<>> /\ tc_desc[t] = <<>> /\ pc[t] = "user"
    BY DEF Init, NoTable
  <2> QED BY <2>1 DEF Allocated, Entries
<1>2. (\A t \in Thread : Inside(t) /\ Mine(t) = {}) /\ Owned
  BY <1>1 DEF Inside, Mine, Owned
<1>3. Totals([n \in {0} |-> 0])
  BY DEF Init, Totals
<1>4. \A t \in Thread : /\ Counted(t, [n \in {0} |-> 0])
                        /\ Filling(t, [n \in {0} |-> 0])
  BY <1>1 DEF Counted, Filling
<1> QED BY <1>2, <1>3, <1>4, TablesRightInitially DEF Memory

(* Every copy lies inside the memory that was got for it and no two copies *)
(* overlap, for any number of threads and blocks, numbered at any time.    *)
THEOREM CopiesApart == Spec => []Apart
<1>1. Memory => Apart
  <2> SUFFICES ASSUME Memory, NEW t \in Thread, NEW e \in Allocated(t),
                      NEW u \in Thread, NEW g \in Allocated(u), Overlap(e, g)
               PROVE  u = t /\ g = e
    BY DEF Apart, Memory, Inside
  <2>1. e.address.piece \in Mine(t) /\ g.address.piece \in Mine(u)
    BY DEF Mine
  <2>2. u = t
    BY <2>1 DEF Memory, Owned, Overlap
  <2> QED BY <2>2 DEF Memory, Inside
<1> QED BY <1>1, MemoryInitially, MemoryInductive, PTL DEF Spec
=============================================================================
