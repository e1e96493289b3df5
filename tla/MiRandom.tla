------------------------------ MODULE MiRandom -------------------------------
(***************************************************************************)
(* The random numbers of mimalloc (random.c): a ChaCha stream in each      *)
(* heap, under a key of its own or, for the further heaps of a thread,     *)
(* that of the thread's first heap, told apart by a nonce, the address of  *)
(* the stream.  The scrambling is not modelled: a word is known by its     *)
(* place and the fields that are scrambled, the key, the counter and the   *)
(* nonce.                                                                  *)
(***************************************************************************)
EXTENDS Integers, Sequences, FiniteSets

CONSTANTS
  Addresses,   \* where streams may be: in heaps, which lie apart
  BlockWords,  \* words that a block gives, 16
  Width,       \* a 32-bit field counts modulo this
  MaxCarries,  \* bound: how often the counter of a stream overflows into the
               \* nonce, each time after Width * Width blocks
  MaxWords,    \* bound: words drawn
  MaxKeys      \* bound: keys that are made

RandomAssumption ==
  /\ BlockWords \in Nat \ {0} /\ Width \in Nat \ {0} /\ MaxCarries \in Nat
  /\ \A a \in Addresses : a \in Nat /\ (a % Width) + MaxCarries + 1 < Width
  /\ \A a, b \in Addresses : a < b => a + MaxCarries < b

VARIABLES
  ctx,    \* address -> the stream there, or NoCtx
  keys,   \* the number of keys made
  drawn,  \* history: the words handed out
  made,   \* history: the key and address of each stream there was
  reused, \* history: those of made that a further stream had
  again   \* history: a stream that had a key and address of its own handed out
          \* a word that had been handed out

vars == <<ctx, keys, drawn, made, reused, again>>

NoCtx == [key |-> 0]

Init ==
  /\ ctx = [a \in Addresses |-> NoCtx]
  /\ keys = 0
  /\ drawn = {} /\ made = {} /\ reused = {}
  /\ again = FALSE

\* chacha_init, chacha_split: the fields 12 to 15 of the input, the first
\* two of which are the counter, the others the halves of an address.
Fresh(key, a) ==
  [key |-> key, nonce |-> <<a % Width, a \div Width>>, counter |-> <<0, 0>>,
   block |-> <<>>, output_available |-> 0]

\* chacha_block; the counter overflows into the first half of the nonce.
Block(c) ==
  LET one == (c.counter[1] + 1) % Width
      two == IF one = 0 THEN (c.counter[2] + 1) % Width ELSE c.counter[2]
  IN  [c EXCEPT !.block = <<c.key, c.nonce, c.counter>>,
                !.output_available = BlockWords,
                !.counter = <<one, two>>,
                !.nonce[1] = IF one = 0 /\ two = 0 THEN (@ + 1) % Width ELSE @]

\* A new stream.  It may get the address of one that is gone, with its key
\* too: mi_heap_delete and mi_heap_new of one thread may come to that.
Make(a, c) ==
  /\ ctx[a] = NoCtx
  /\ ctx' = [ctx EXCEPT ![a] = c]
  /\ made' = made \cup {<<c.key, a>>}
  /\ reused' = reused \cup ({<<c.key, a>>} \cap made)
  /\ UNCHANGED <<drawn, again>>

\* _mi_random_init, of a new stream.  Where the system gives no random key
\* the clock makes one, maybe that of another stream.  Such a stream is said
\* to be weak, but chacha_init clears that at once, so that
\* _mi_random_reinit_if_weak does nothing.
RandomInit(a) ==
  \E key \in 1 .. keys + 1 :
    /\ key <= MaxKeys
    /\ Make(a, Fresh(key, a))
    /\ keys' = IF key > keys THEN key ELSE keys

\* Mutant of Split: the nonce is that of the stream that is split.
SplitKeepsNonce(a, b) ==
  /\ ctx[a] # NoCtx
  /\ Make(b, Block([ctx[a] EXCEPT !.counter = <<0, 0>>]))
  /\ UNCHANGED keys

\* _mi_random_split, for mi_heap_new: "do not reuse nonces!" (random.c:123).
Split(a, b) ==
  /\ ctx[a] # NoCtx
  /\ Make(b, Block(Fresh(ctx[a].key, b)))
  /\ UNCHANGED keys

\* The nonces of a stream, within the bound.
Nonces(a) == {<<(a % Width) + n, a \div Width>> : n \in 0 .. MaxCarries}

\* chacha_next32.
Next32(a) ==
  LET old == ctx[a]
      c == IF old.output_available <= 0 THEN Block(old) ELSE old
      word == <<c.block, BlockWords - c.output_available>>
  IN  /\ Cardinality(drawn) < MaxWords
      /\ old.output_available <= 0 => old.nonce \in Nonces(a)
      /\ drawn' = drawn \cup {word}
      /\ again' = (again \/ (word \in drawn /\ <<c.key, a>> \notin reused))
      /\ ctx' = [ctx EXCEPT ![a] = [c EXCEPT !.output_available = @ - 1]]
      /\ UNCHANGED <<keys, made, reused>>

\* The heap is freed.
Forget(a) ==
  /\ ctx[a] # NoCtx
  /\ ctx' = [ctx EXCEPT ![a] = NoCtx]
  /\ UNCHANGED <<keys, drawn, made, reused, again>>

Next ==
  \E a \in Addresses :
    \/ RandomInit(a) \/ Forget(a)
    \/ ctx[a] # NoCtx /\ Next32(a)
    \/ \E b \in Addresses : Split(a, b)

Spec == Init /\ [][Next]_vars

---------------------------------------------------------------------------
\* A word comes twice only from streams that had one key and one address: not
\* from one stream, though its counter overflows into the nonce, and not from
\* two at different addresses under one key, whether split or made with a weak
\* key, though the overflow of one moves its nonce towards that of the other.
NoWordAgain == ~again
=============================================================================
