---------------------------- MODULE Generators ----------------------------
(***************************************************************************)
(* The random generators (mad_rand.c) and the commands that choose one     *)
(* (OPTION) and seed it (EOPTION, COPTION, TRACK with quantum effects).    *)
(*                                                                         *)
(* There is the generator MAD always had, a lagged difference over an      *)
(* array that is refilled in place, and the "best" one, a shifted xor      *)
(* over an array that is a ring, of which there are several streams.  All  *)
(* of them are static: what one command leaves is what the next one finds. *)
(* The sizes of the arrays are parameters; words keep their width.         *)
(***************************************************************************)
EXTENDS Bitwise, Integers, Sequences, SequencesExt

CONSTANTS
  NR_RAND, NJ_RAND, ND_RAND, MAX_RAND,  \* 55, 24, 21 and 10^9 in the code
  Streams,      \* 10 in the code
  Size,         \* 16 in the code: words in a stream, a power of 2
  Width,        \* 64 in the code: bits in a word
  Left, Right, Mixed,   \* 31, 11, 30 in the code: the shifts
  Factor,       \* 33 in the code: between the words a seed fills
  Jump,         \* the bits of jump[], as a set of places
  Pattern,      \* seed -> the bits of the double it is turned into
  DefaultSeed,  \* 123456789 in the code
  NoOption,     \* RAND or RANDID not given
  MaxCommands,  \* bound: seeds and draws of a stream
  MaxDraws      \* bound: draws of the default generator after a seed

Seed == DOMAIN Pattern
Word == 0 .. 2 ^ Width - 1
Stream == 0 .. Streams - 1

(* 0 < NJ_RAND < NR_RAND, which has no divisor in common with ND_RAND; the *)
(* places of Jump are less than Size * Width.                              *)

VARIABLES
  options,     \* RAND and RANDID as they were last given
  kind,        \* the generator init55_p and frndm_p point to
  st,          \* the stream that is selected
  st_array,    \* stream -> its words s, the position p and its id
  irn_rand, next_rand,   \* the default generator
  given,       \* ghost: stream -> the seeds and draws it had
  drawn        \* ghost: the values of the default generator since its seed

vars == <<options, kind, st, st_array, irn_rand, next_rand, given, drawn>>

-----------------------------------------------------------------------------
(***************************************************************************)
(* The default generator.  Differences are taken modulo MAX_RAND.          *)
(***************************************************************************)
Minus(a, b) == (a - b + MAX_RAND) % MAX_RAND

(***************************************************************************)
(* madx_irngen: each cell becomes its difference with the cell NJ_RAND     *)
(* before it, which is an old value for the first cells and a new one for  *)
(* the others.                                                             *)
(***************************************************************************)
FirstCells(irn) ==
  [i \in 0 .. NR_RAND - 1 |->
     IF i < NJ_RAND THEN Minus(irn[i], irn[i + NR_RAND - NJ_RAND]) ELSE irn[i]]

OtherCells(irn) ==
  FoldLeft(LAMBDA c, i : [c EXCEPT ![i] = Minus(@, c[i - NJ_RAND])],
           irn, [k \in 1 .. NR_RAND - NJ_RAND |-> NJ_RAND + k - 1])

Refilled(irn) == OtherCells(FirstCells(irn))

(***************************************************************************)
(* madx_init55: the seed and differences of it, spread ND_RAND apart, then *)
(* three refills.                                                          *)
(***************************************************************************)
Spread(seed) ==
  FoldLeft(LAMBDA r, i :
             [irn |-> [r.irn EXCEPT ![((ND_RAND * i) % NR_RAND) - 1] = r.k],
              k |-> Minus(r.j, r.k),
              j |-> r.k],
           [irn |-> [i \in 0 .. NR_RAND - 1 |-> seed % MAX_RAND], k |-> 1, j |-> seed % MAX_RAND],
           [i \in 1 .. NR_RAND - 1 |-> i]).irn

WarmedUp(seed) == Refilled(Refilled(Refilled(Spread(seed))))

-----------------------------------------------------------------------------
(***************************************************************************)
(* The streams.  mad_num_irand: the next word from it and the one before.  *)
(***************************************************************************)
Mask(w) == w % 2 ^ Width

Stepped(x) ==
  LET p == (x.p + 1) % Size
      s0 == x.s[x.p]
      s1 == x.s[p] ^^ Mask(x.s[p] * 2 ^ Left)
  IN [x EXCEPT !.s[p] = ((s1 ^^ s0) ^^ (s1 \div 2 ^ Right)) ^^ (s0 \div 2 ^ Mixed), !.p = p]

Times(n, Op(_), x) == FoldLeft(LAMBDA y, i : Op(y), x, [i \in 1 .. n |-> i])

(***************************************************************************)
(* mad_num_randjump: the sum of the states at the places in Jump.  They    *)
(* are all read, and the sum is stored, from the position the stream has   *)
(* at the start.                                                           *)
(***************************************************************************)
FromPosition(x, p) == [j \in 0 .. Size - 1 |-> x.s[(j + p) % Size]]

Jumped(x) ==
  LET Add(r, i) ==
        [x |-> Stepped(r.x),
         t |-> IF i - 1 \in Jump
               THEN [j \in 0 .. Size - 1 |-> r.t[j] ^^ FromPosition(r.x, x.p)[j]]
               ELSE r.t]
      all == FoldLeft(Add, [x |-> x, t |-> [j \in 0 .. Size - 1 |-> 0]],
                      [i \in 1 .. Size * Width |-> i])
  IN [all.x EXCEPT !.s = [j \in 0 .. Size - 1 |-> all.t[(j - x.p + Size) % Size]]]

(***************************************************************************)
(* mad_num_randseed fills the words, steps around the ring and jumps.  The *)
(* position is not set.                                                    *)
(***************************************************************************)
Filled(seed) == [i \in 0 .. Size - 1 |-> Mask(Pattern[seed] * Factor ^ (i + 1))]

Seeded(x, seed) == Jumped(Times(Size, Stepped, [x EXCEPT !.s = Filled(seed)]))

(***************************************************************************)
(* A stream that is selected for the first time gets its number, the seed  *)
(* that stands for none and as many jumps as its number says.              *)
(***************************************************************************)
Started(x, i) == Times(i + 1, Jumped, Seeded([x EXCEPT !.id = i + 1], 0))

Unused == [s |-> [j \in 0 .. Size - 1 |-> 0], p |-> 0, id |-> 0]

Selected(x, i) == IF x.id = 0 THEN Started(x, i) ELSE x

-----------------------------------------------------------------------------
(***************************************************************************)
(* setrand: the number of a stream counts from 1 and wraps around, zero    *)
(* and less is the stream there is.                                        *)
(***************************************************************************)
Numbered(id) == IF id > 0 THEN (id - 1) % Streams ELSE st

SetRand(rand, id) ==
  IF rand = "best"
  THEN /\ kind' = "best"
       /\ st' = Numbered(id)
       /\ st_array' = [st_array EXCEPT ![st'] = Selected(@, IF id > 0 THEN st' ELSE 0)]
  ELSE /\ kind' = "default"
       /\ UNCHANGED <<st, st_array>>

(***************************************************************************)
(* OPTION, RAND=rand, RANDID=id: the options are kept, so a RAND that was  *)
(* given once is set again by each OPTION that follows.                    *)
(***************************************************************************)
Given(new, old) == IF new = NoOption THEN old ELSE new

Option(rand, id) ==
  /\ options' = [rand |-> Given(rand, options.rand), id |-> Given(id, options.id)]
  /\ IF options'.rand = NoOption
     THEN UNCHANGED <<kind, st, st_array>>
     ELSE SetRand(options'.rand, options'.id[1])
  /\ UNCHANGED <<irn_rand, next_rand, given, drawn>>

(***************************************************************************)
(* SEED=seed of EOPTION, COPTION and TRACK: init55.                        *)
(***************************************************************************)
InitDefault(seed) ==
  /\ kind = "default"
  /\ irn_rand' = WarmedUp(seed)
  /\ next_rand' = 0
  /\ drawn' = <<>>
  /\ UNCHANGED <<options, kind, st, st_array, given>>

Draw == -1

MayGive == Len(given[st]) < MaxCommands

InitBest(seed) ==
  /\ kind = "best"
  /\ MayGive
  /\ st_array' = [st_array EXCEPT ![st] = Seeded(@, seed)]
  /\ given' = [given EXCEPT ![st] = Append(@, seed)]
  /\ UNCHANGED <<options, kind, st, irn_rand, next_rand, drawn>>

(***************************************************************************)
(* RANF(): frndm.                                                          *)
(***************************************************************************)
DrawDefault ==
  /\ kind = "default"
  /\ Len(drawn) < MaxDraws
  /\ LET irn == IF next_rand = NR_RAND THEN Refilled(irn_rand) ELSE irn_rand
         next == IF next_rand = NR_RAND THEN 0 ELSE next_rand
     IN /\ irn_rand' = irn
        /\ drawn' = Append(drawn, irn[next])
        /\ next_rand' = next + 1
  /\ UNCHANGED <<options, kind, st, st_array, given>>

DrawBest ==
  /\ kind = "best"
  /\ MayGive
  /\ st_array' = [st_array EXCEPT ![st] = Stepped(@)]
  /\ given' = [given EXCEPT ![st] = Append(@, Draw)]
  /\ UNCHANGED <<options, kind, st, irn_rand, next_rand, drawn>>

Init ==
  /\ options = [rand |-> NoOption, id |-> <<0>>]
  /\ kind = "default"
  /\ st = 0
  /\ st_array = [i \in Stream |-> Unused]
  /\ irn_rand = WarmedUp(DefaultSeed)
  /\ next_rand = 0
  /\ given = [i \in Stream |-> <<>>]
  /\ drawn = <<>>

Next ==
  \/ \E rand \in {NoOption, "default", "best"}, id \in {NoOption} \cup {<<i>> : i \in 0 .. Streams + 1} :
       Option(rand, id)
  \/ \E seed \in Seed : InitDefault(seed)
  \/ \E seed \in Seed : InitBest(seed)
  \/ DrawDefault
  \/ DrawBest

Spec == Init /\ [][Next]_vars

-----------------------------------------------------------------------------
(***************************************************************************)
(* Types; a generator in use has been started, and a stream that has been  *)
(* started has the number it is selected by.                               *)
(***************************************************************************)
TypeOK ==
  /\ st \in Stream
  /\ kind = "best" => st_array[st].id # 0
  /\ \A i \in Stream :
       /\ st_array[i] \in [s : [0 .. Size - 1 -> Word], p : 0 .. Size - 1, id : {0, i + 1}]
       /\ st_array[i].id = 0 => given[i] = <<>>
  /\ irn_rand \in [0 .. NR_RAND - 1 -> 0 .. MAX_RAND - 1]
  /\ next_rand \in 0 .. NR_RAND

(***************************************************************************)
(* The values of the default generator follow one recurrence, whatever is  *)
(* selected in between: each is the difference of those NR_RAND and        *)
(* NJ_RAND before it, across every refill of the array in place.           *)
(***************************************************************************)
Lagged ==
  \A n \in NR_RAND + 1 .. Len(drawn) :
    drawn[n] = Minus(drawn[n - NR_RAND], drawn[n - NJ_RAND])

(***************************************************************************)
(* "The user can switch between the 10 independent generators at will":    *)
(* a stream goes on where it was left.  Its state is that of a program     *)
(* which selects this stream at once and gives it the same seeds and draws *)
(* without a switch.                                                       *)
(***************************************************************************)
Alone(i, commands) ==
  FoldLeft(LAMBDA x, c : IF c = Draw THEN Stepped(x) ELSE Seeded(x, c), Started(Unused, i), commands)

Resumes ==
  \A i \in Stream : st_array[i].id # 0 => st_array[i] = Alone(i, given[i])

(***************************************************************************)
(* Claims of the manual that do not hold.                                  *)
(*                                                                         *)
(* SEED "seeds or starts a particular sequence of random values"           *)
(* (error.tex): what follows depends on the position that the draws before *)
(* the seed have left.                                                     *)
(***************************************************************************)
Ahead(x) == FromPosition(x, x.p)

JustSeeded(i) == given[i] # <<>> /\ Last(given[i]) # Draw

SeedStarts ==
  \A i \in Stream : JustSeeded(i) => Ahead(st_array[i]) = Ahead(Alone(i, <<Last(given[i])>>))

(***************************************************************************)
(* "The special initial seed [...] can be restored by using the value      *)
(* zero" (format.tex): the jumps that the first selection makes after it   *)
(* are not.                                                                *)
(***************************************************************************)
ZeroRestores ==
  \A i \in Stream : given[i] = <<0>> => st_array[i] = Started(Unused, i)

(***************************************************************************)
(* "10 multiple independent generators" (format.tex): two streams with the *)
(* same seed give the same values.                                         *)
(***************************************************************************)
Independent ==
  \A i, j \in Stream :
    i # j /\ JustSeeded(i) /\ JustSeeded(j) => Ahead(st_array[i]) # Ahead(st_array[j])
=============================================================================
