----------------------------- MODULE TaskCommon -----------------------------
(***************************************************************************)
(* Task common (macttcom.c, SHORT_TERM_TASKCOM): a common block of which   *)
(* each thread has a copy of its own.  _taskcom_address maps the static    *)
(* address of a block to the calling thread's copy.                        *)
(*                                                                         *)
(* All threads share the cross reference, in which a block gets a number   *)
(* when it is first asked for (under tccr_lock), and the key under which   *)
(* the thread library keeps each thread's description table.  A thread's   *)
(* first call builds its table, for the blocks numbered by then, which it  *)
(* counts under the lock and walks without it; later calls extend it.      *)
(*                                                                         *)
(* The hash table is a way to search the ordered list and is left out.     *)
(* malloc is external: it returns memory that nobody has.  An address is a *)
(* piece of memory, named by its number in heap, and an offset in it.      *)
(***************************************************************************)
EXTENDS Naturals, Sequences

CONSTANTS
  Thread,
  Block,      \* the static addresses of the program's task common blocks
  Bytes,      \* their sizes
  MaxCalls    \* bound: the calls of each thread

ASSUME TaskCommonAssumption ==
  /\ Bytes \in [Block -> Nat \ {0}]
  /\ MaxCalls \in Nat

VARIABLES
  olist,            \* the cross reference, in order: block olist[n] has number n
  total_tcom_size,
  tcda_key,         \* the key of the tables; 0 before tcda_key_initialized
  specific,         \* external: per thread, what thr_setspecific stored last
  heap,             \* external: the sizes of the pieces of memory malloc gave
  pc,
  calls,            \* for MaxCalls
  tblk_addr,        \* the block asked for
  blk_num,          \* its number (hle_number)
  blk_count, blk_total_size,  \* what build_taskcom_desc has counted
  com_blocks,       \* where it puts the next block
  tc_desc,          \* the table as the thread is building it
  given             \* history: per thread and block, the address returned last

vars == <<olist, total_tcom_size, tcda_key, specific, heap, pc, calls, tblk_addr,
          blk_num, blk_count, blk_total_size, com_blocks, tc_desc, given>>

shared == <<olist, total_tcom_size>>
locals == <<tblk_addr, blk_num, blk_count, blk_total_size, com_blocks, tc_desc>>

(* Block sizes are padded to doublewords.                                  *)
Padded(n) == ((n + 7) \div 8) * 8
Size(b) == Padded(Bytes[b])

NoBlock == [piece |-> 0, offset |-> 0]
Doublewords == {n \in Nat : n % 8 = 0}
Address == [piece : Nat, offset : Doublewords]

(* An entry of a table: an address, 0 while the block is not allocated,    *)
(* the length, and (what memcpy has put there) a copy of which block.      *)
Empty == [address |-> NoBlock, blength |-> 0, copy |-> "none"]
Entry == [address : Address, blength : Doublewords, copy : Block \cup {"none"}]

(* What thr_getspecific returns to t: a table, if t stored one with key.   *)
NoTable == [key |-> 0, blocks |-> <<>>]
HasTable(t) == tcda_key # 0 /\ specific[t].key = tcda_key

Pc == {"user", "key", "get", "build", "malloc", "fill", "finish", "gone"}

(* Everything has its type, and every size and address that the threads    *)
(* compute is a multiple of a doubleword, as the blocks' contents need.    *)
TypeOK ==
  /\ olist \in Seq(Block)
  /\ total_tcom_size \in Doublewords
  /\ tcda_key \in Nat
  /\ specific \in [Thread -> [key : Nat, blocks : Seq(Entry)]]
  /\ heap \in Seq(Doublewords)
  /\ pc \in [Thread -> Pc]
  /\ calls \in [Thread -> 0 .. MaxCalls]
  /\ tblk_addr \in [Thread -> Block \cup {"none"}]
  /\ blk_num \in [Thread -> Nat]
  /\ blk_count \in [Thread -> Nat] /\ blk_total_size \in [Thread -> Doublewords]
  /\ com_blocks \in [Thread -> Address]
  /\ tc_desc \in [Thread -> Seq(Entry)]
  /\ given \in [Thread -> [Block -> Address]]

Init ==
  /\ olist = <<>> /\ total_tcom_size = 0
  /\ tcda_key = 0
  /\ specific = [t \in Thread |-> NoTable]
  /\ heap = <<>>
  /\ pc = [t \in Thread |-> "user"]
  /\ calls = [t \in Thread |-> 0]
  /\ tblk_addr = [t \in Thread |-> "none"]
  /\ blk_num = [t \in Thread |-> 0]
  /\ blk_count = [t \in Thread |-> 0]
  /\ blk_total_size = [t \in Thread |-> 0]
  /\ com_blocks = [t \in Thread |-> NoBlock]
  /\ tc_desc = [t \in Thread |-> <<>>]
  /\ given = [t \in Thread |-> [b \in Block |-> NoBlock]]

-----------------------------------------------------------------------------
Go(t, next) == pc' = [pc EXCEPT ![t] = next]

(* Under tccr_lock: find the block's entry, or append one.                 *)
NumberOf(b) == CHOOSE n \in DOMAIN olist : olist[n] = b

_taskcom_address(t, b) ==
  /\ pc[t] = "user"
  /\ calls[t] < MaxCalls
  /\ calls' = [calls EXCEPT ![t] = @ + 1]
  /\ tblk_addr' = [tblk_addr EXCEPT ![t] = b]
  /\ IF \E n \in DOMAIN olist : olist[n] = b
       THEN /\ blk_num' = [blk_num EXCEPT ![t] = NumberOf(b)]
            /\ UNCHANGED shared
       ELSE /\ blk_num' = [blk_num EXCEPT ![t] = Len(olist) + 1]
            /\ olist' = Append(olist, b)
            /\ total_tcom_size' = total_tcom_size + Size(b)
  /\ Go(t, "key")
  /\ UNCHANGED <<tcda_key, specific, heap, blk_count, blk_total_size, com_blocks, tc_desc,
                 given>>

(* get_taskcom_desc_addr: the key is created once, by whoever finds it     *)
(* missing a second time, under tcda_key_lock.                             *)
look_for_key(t) ==
  /\ pc[t] = "key"
  /\ IF tcda_key = 0 THEN Go(t, "get")
                     ELSE Go(t, IF HasTable(t) THEN "finish" ELSE "build")
  /\ tc_desc' = [tc_desc EXCEPT ![t] = IF HasTable(t) THEN specific[t].blocks ELSE <<>>]
  /\ UNCHANGED <<shared, tcda_key, specific, heap, calls, tblk_addr, blk_num, blk_count,
                 blk_total_size, com_blocks, given>>

create_key_Always(t) ==
  /\ pc[t] = "get"
  /\ tcda_key' = tcda_key + 1
  /\ Go(t, "build")
  /\ UNCHANGED <<shared, specific, heap, calls, locals, given>>

create_key(t) ==
  /\ pc[t] = "get"
  /\ tcda_key' = IF tcda_key = 0 THEN 1 ELSE tcda_key
  /\ Go(t, IF HasTable(t) THEN "finish" ELSE "build")
  /\ UNCHANGED <<shared, specific, heap, calls, locals, given>>

(* build_taskcom_desc: count under the lock, ...                           *)
build_taskcom_desc(t) ==
  /\ pc[t] = "build"
  /\ blk_count' = [blk_count EXCEPT ![t] = Len(olist)]
  /\ blk_total_size' = [blk_total_size EXCEPT ![t] = total_tcom_size]
  /\ Go(t, "malloc")
  /\ UNCHANGED <<shared, tcda_key, specific, heap, calls, tblk_addr, blk_num, com_blocks,
                 tc_desc, given>>

(* ... get memory for all the blocks counted, ...                          *)
build_malloc(t) ==
  /\ pc[t] = "malloc"
  /\ heap' = Append(heap, blk_total_size[t])
  /\ com_blocks' = [com_blocks EXCEPT ![t] = [piece |-> Len(heap) + 1, offset |-> 0]]
  /\ Go(t, "fill")
  /\ UNCHANGED <<shared, tcda_key, specific, calls, tblk_addr, blk_num, blk_count,
                 blk_total_size, tc_desc, given>>

(* ... and walk the ordered list without it.                               *)
MoreToFill_UntilTheEnd(t) == Len(tc_desc[t]) < Len(olist)
MoreToFill(t) == Len(tc_desc[t]) < blk_count[t]

NextToFill_FromTheEnd(t) == olist[blk_count[t] - Len(tc_desc[t])]
NextToFill(t) == olist[Len(tc_desc[t]) + 1]

build_fill(t) ==
  /\ pc[t] = "fill"
  /\ MoreToFill(t)
  /\ LET b == NextToFill(t)
         at == com_blocks[t]
     IN /\ tc_desc' = [tc_desc EXCEPT ![t] =
                         Append(@, [address |-> at, blength |-> Size(b), copy |-> b])]
        /\ com_blocks' = [com_blocks EXCEPT ![t] = [at EXCEPT !.offset = @ + Size(b)]]
  /\ UNCHANGED <<shared, tcda_key, specific, heap, pc, calls, tblk_addr, blk_num, blk_count,
                 blk_total_size, given>>

(* put_taskcom_desc_addr.                                                  *)
build_put(t) ==
  /\ pc[t] = "fill"
  /\ ~MoreToFill(t)
  /\ specific' = [specific EXCEPT ![t] = [key |-> tcda_key, blocks |-> tc_desc[t]]]
  /\ Go(t, "finish")
  /\ UNCHANGED <<shared, tcda_key, heap, calls, locals, given>>

(* The thread's own table: extended by empty entries up to the block's     *)
(* number, and the block allocated if its entry is empty.                  *)
Extended(table, n) ==
  [i \in 1 .. (IF Len(table) < n THEN n ELSE Len(table)) |->
     IF i <= Len(table) THEN table[i] ELSE Empty]

finish(t) ==
  /\ pc[t] = "finish"
  /\ LET table == Extended(tc_desc[t], blk_num[t])
         mine == table[blk_num[t]]
         new == [address |-> [piece |-> Len(heap) + 1, offset |-> 0],
                 blength |-> Size(tblk_addr[t]), copy |-> tblk_addr[t]]
         after == IF mine.address = NoBlock THEN [table EXCEPT ![blk_num[t]] = new] ELSE table
     IN /\ heap' = IF mine.address = NoBlock THEN Append(heap, Size(tblk_addr[t])) ELSE heap
        /\ specific' = [specific EXCEPT ![t].blocks = after]
        /\ given' = [given EXCEPT ![t][tblk_addr[t]] = after[blk_num[t]].address]
  /\ Go(t, "user")
  /\ tblk_addr' = [tblk_addr EXCEPT ![t] = "none"]
  /\ blk_num' = [blk_num EXCEPT ![t] = 0]
  /\ blk_count' = [blk_count EXCEPT ![t] = 0]
  /\ blk_total_size' = [blk_total_size EXCEPT ![t] = 0]
  /\ com_blocks' = [com_blocks EXCEPT ![t] = NoBlock]
  /\ tc_desc' = [tc_desc EXCEPT ![t] = <<>>]
  /\ UNCHANGED <<shared, tcda_key, calls>>

(* The destructor of the key, which the thread library calls when a thread *)
(* ends: the table is freed, the copies are not.                           *)
destroy_taskcom_desc(t) ==
  /\ pc[t] = "user"
  /\ Go(t, "gone")
  /\ specific' = [specific EXCEPT ![t] = NoTable]
  /\ UNCHANGED <<shared, tcda_key, heap, calls, locals, given>>

InCall(t) ==
  \/ look_for_key(t) \/ create_key(t)
  \/ build_taskcom_desc(t) \/ build_malloc(t) \/ build_fill(t) \/ build_put(t)
  \/ finish(t)

Next == \E t \in Thread :
  \/ InCall(t)
  \/ destroy_taskcom_desc(t)
  \/ \E b \in Block : _taskcom_address(t, b)

Spec == Init /\ [][Next]_vars

-----------------------------------------------------------------------------
(* The properties.                                                         *)

(* The entries of t's table, finished or being built.                      *)
Entries(t) == {specific[t].blocks[n] : n \in DOMAIN specific[t].blocks}
                \cup {tc_desc[t][n] : n \in DOMAIN tc_desc[t]}
Allocated(t) == {e \in Entries(t) : e.address # NoBlock}

End(e) == e.address.offset + e.blength
Overlap(e, f) == /\ e.address.piece = f.address.piece
                 /\ e.address.offset < End(f)
                 /\ f.address.offset < End(e)

(* Every copy lies inside the memory that was got for it, though blocks    *)
(* may be numbered between counting and filling, and no two copies         *)
(* overlap, be they of one thread or of two (build_taskcom_desc).          *)
Apart ==
  \A t \in Thread : \A e \in Allocated(t) :
    /\ e.address.piece \in DOMAIN heap /\ End(e) <= heap[e.address.piece]
    /\ \A u \in Thread : \A f \in Allocated(u) : Overlap(e, f) => u = t /\ f = e

(* A block's number is its place in every table: entry n is a copy of the  *)
(* n-th block of the cross reference, of its length, and what a thread was *)
(* given for a block is the address of that entry.  The order in which     *)
(* other threads number their blocks makes no difference.                  *)
RightBlock ==
  \A t \in Thread :
    /\ \A table \in {specific[t].blocks, tc_desc[t]} : \A n \in DOMAIN table :
         table[n].address # NoBlock =>
           /\ n \in DOMAIN olist
           /\ table[n].copy = olist[n] /\ table[n].blength = Size(olist[n])
    /\ \A b \in Block : pc[t] # "gone" /\ given[t][b] # NoBlock =>
         \E n \in DOMAIN specific[t].blocks :
           /\ n \in DOMAIN olist /\ olist[n] = b
           /\ specific[t].blocks[n].address = given[t][b]

(* A thread's copy of a block stays where it is for good: building, or     *)
(* extending, a table never gives it a second copy and loses what it wrote *)
(* to the first (_taskcom_address, get_taskcom_desc_addr).                 *)
StaysPut ==
  [][\A t \in Thread, b \in Block :
       given[t][b] # NoBlock => given'[t][b] = given[t][b]]_vars
=============================================================================
