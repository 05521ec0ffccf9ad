------------------------------ MODULE MaskMatch ------------------------------
(***************************************************************************)
(* How a ban or an ignore is compared with a user (src/match.c,            *)
(* src/cidr.c): collapse() of a mask that is stored, match() one turn of   *)
(* its loop at a time, and match_cidr() for a range of addresses.          *)
(*                                                                         *)
(* A string is a sequence of characters and a pointer an index into it,    *)
(* with the terminating zero behind the last character.  The arguments of  *)
(* match_cidr are taken apart: what stands before the last @, and the      *)
(* addresses as bytes; turning text into bytes is left out.                *)
(***************************************************************************)
EXTENDS Integers, Sequences, FiniteSets, FiniteSetsExt

CONSTANTS
  Inputs,            \* what is compared
  ToLower,           \* of each character, the one it is compared as
  MATCH_MAX_CALLS,
  ByteBits           \* bits of a byte

\* 2 to the power of e.
PowerOfTwo(e) ==
  LET p[i \in 0 .. e] == IF i = 0 THEN 1 ELSE 2 * p[i - 1]
  IN  p[e]

Byte == 0 .. PowerOfTwo(ByteBits) - 1
Chars == DOMAIN ToLower
Zero == "zero"
String == Seq(Chars \cup {"*", "?"})

\* The function called, and its arguments.  cidrlen is 0 for a mask without a length; mixed is
\* set for an address and a mask of different families.
Input == [fn : {"collapse", "match", "match_cidr"}, mask : String, name : String,
          cidrlen : Nat, mixed : BOOLEAN, maskaddr : Seq(Byte), ipaddr : Seq(Byte)]
NoInput == [fn |-> "none", mask |-> <<>>, name |-> <<>>, cidrlen |-> 0, mixed |-> FALSE,
            maskaddr |-> <<>>, ipaddr |-> <<>>]

ASSUME MatchAssumption ==
  /\ Inputs \subseteq Input
  /\ \A i \in Inputs : ~ i.mixed => Len(i.maskaddr) = Len(i.ipaddr)
  /\ ByteBits \in Nat \ {0}
  /\ Zero \notin Chars /\ \A c \in Chars : ToLower[c] # Zero
  /\ MATCH_MAX_CALLS \in Nat

VARIABLES
  in,                \* what is compared
  fn,                \* the function it is in, "none" before the call
  mask,              \* the mask, as it is now
  m, n,              \* where the loop is in mask and name
  ma, na, wild,      \* where it goes back to, once there was a *
  calls,
  ret                \* what was returned: "yes", "no" or nothing yet, "none"

matchVars == <<in, fn, mask, m, n, ma, na, wild, calls, ret>>

name == in.name

MatchInit ==
  /\ in = NoInput
  /\ fn = in.fn
  /\ mask = in.mask
  /\ m = 1 /\ n = 1 /\ ma = 1 /\ na = 1
  /\ wild = FALSE
  /\ calls = 0
  /\ ret = "none"

\* A service compares a mask and a user, as s_chan_unban does with each ban of the channel.
Call ==
  /\ fn = "none"
  /\ \E i \in Inputs : in' = i /\ fn' = i.fn /\ mask' = i.mask
  /\ UNCHANGED <<m, n, ma, na, wild, calls, ret>>

At(s, i) == IF i \in DOMAIN s THEN s[i] ELSE Zero
Answer(b) == IF b THEN "yes" ELSE "no"
Lower(c) == IF c \in Chars THEN ToLower[c] ELSE c

-----------------------------------------------------------------------------
(* match.                                                                  *)

\* The first character from i on that is not a *.
SkipStars(i) ==
  CHOOSE j \in i .. Len(mask) + 1 : At(mask, j) # "*" /\ \A k \in i .. j - 1 : mask[k] = "*"

\* Whether a mask that is used up ends in a *, or in a * and ?s, so that it matches whatever
\* is left of the name.  A * that is the first character is not taken for one.
EndsInStar ==
  LET last == Max({1} \cup {j \in DOMAIN mask : mask[j] # "?"}) IN last > 1 /\ mask[last] = "*"

Returns(b) == ret' = Answer(b) /\ UNCHANGED <<m, n, ma, na, wild>>

\* Mutant: the search goes on behind what was compared last.
CompareFromHere(i, j, back, go, w) ==
  /\ ma' = back /\ wild' = w
  /\ IF Lower(At(mask, i)) # Lower(At(name, j)) /\ At(mask, i) # "?"
     THEN IF w
          THEN m' = back /\ n' = j + 1 /\ na' = j + 1 /\ ret' = ret
          ELSE m' = i /\ n' = j /\ na' = go /\ ret' = Answer(FALSE)
     ELSE /\ m' = IF At(mask, i) # Zero THEN i + 1 ELSE i
          /\ n' = IF At(name, j) # Zero THEN j + 1 ELSE j
          /\ na' = go
          /\ ret' = ret

\* The characters at i and j are compared; back and go are where the loop goes back to.
Compare(i, j, back, go, w) ==
  /\ ma' = back /\ wild' = w
  /\ IF Lower(At(mask, i)) # Lower(At(name, j)) /\ At(mask, i) # "?"
     THEN IF w
          THEN m' = back /\ n' = go + 1 /\ na' = go + 1 /\ ret' = ret
          ELSE m' = i /\ n' = j /\ na' = go /\ ret' = Answer(FALSE)
     ELSE /\ m' = IF At(mask, i) # Zero THEN i + 1 ELSE i
          /\ n' = IF At(name, j) # Zero THEN j + 1 ELSE j
          /\ na' = go
          /\ ret' = ret

\* One turn of the loop.
Turn ==
  LET star == At(mask, m) = "*"
      i == IF star THEN SkipStars(m) ELSE m
      back == IF star THEN i ELSE ma
      go == IF star THEN n ELSE na
      w == wild \/ star
  IN  IF At(mask, i) = Zero
      THEN IF At(name, n) = Zero \/ EndsInStar THEN Returns(TRUE)
           ELSE IF ~ w THEN Returns(FALSE)
           ELSE Compare(back, go + 1, back, go + 1, w)
      ELSE IF At(name, n) = Zero THEN Returns(FALSE)
      ELSE Compare(i, n, back, go, w)

match ==
  /\ fn = "match" /\ ret = "none"
  /\ IF mask = <<>> \/ name = <<>> \/ calls = MATCH_MAX_CALLS
     THEN Returns(FALSE) /\ UNCHANGED calls
     ELSE Turn /\ calls' = calls + 1
  /\ UNCHANGED <<in, fn, mask>>

-----------------------------------------------------------------------------
(* collapse and match_cidr.                                                *)

\* collapse, for a mask that is stored and compared later.
collapse ==
  LET keep == {i \in DOMAIN mask : ~ (mask[i] = "*" /\ At(mask, i - 1) = "*")} IN
  /\ fn = "collapse"
  /\ mask' = [k \in 1 .. Cardinality(keep) |->
                mask[CHOOSE i \in keep : Cardinality({j \in keep : j <= i}) = k]]
  /\ fn' = "match"
  /\ UNCHANGED <<in, m, n, ma, na, wild, calls, ret>>

\* The first len bits are the same: whole bytes, and the upper bits of the next one.
comp_with_mask(addr, dest, len) ==
  LET bytes == len \div ByteBits
      bits == len % ByteBits
      upper(x) == x \div PowerOfTwo(ByteBits - bits)
  IN  /\ \A i \in 1 .. bytes : addr[i] = dest[i]
      /\ bits = 0 \/ upper(addr[bytes + 1]) = upper(dest[bytes + 1])

\* An address and a mask of different families match, whatever stands before the @.
match_cidr ==
  /\ fn = "match_cidr" /\ ret = "none"
  /\ IF in.cidrlen # 0 /\ ~ in.mixed /\ in.cidrlen <= ByteBits * Len(in.ipaddr)
        /\ comp_with_mask(in.ipaddr, in.maskaddr, in.cidrlen)
     THEN fn' = "match" /\ UNCHANGED ret
     ELSE ret' = Answer(in.cidrlen # 0 /\ in.mixed) /\ UNCHANGED fn
  /\ UNCHANGED <<in, mask, m, n, ma, na, wild, calls>>

MatchNext == Call \/ match \/ collapse \/ match_cidr

MatchSpec == MatchInit /\ [][MatchNext]_matchVars

-----------------------------------------------------------------------------
\* What a mask stands for: * is any characters, ? any one, and case is ignored.  Starts are the
\* places of a name from which on it is a character of a mask and then what follows in
\* the mask, which may start at the places after; g[r] those for the last r characters.
Starts(c, t, after) ==
  IF c = "*" THEN {j \in 1 .. Len(t) + 1 : \E k \in after : j <= k}
  ELSE {j \in 1 .. Len(t) : (c = "?" \/ Lower(c) = Lower(t[j])) /\ j + 1 \in after}

Glob(s, t) ==
  LET g[r \in 0 .. Len(s)] ==
        IF r = 0 THEN {Len(t) + 1} ELSE Starts(s[Len(s) + 1 - r], t, g[r - 1])
  IN  1 \in g[Len(s)]

\* The range an address is to be in: its first cidrlen bits are those of the mask.
InRange ==
  LET bit(addr, k) == (addr[k \div ByteBits + 1] \div PowerOfTwo(ByteBits - 1 - (k % ByteBits))) % 2 IN
  /\ in.cidrlen \in 1 .. ByteBits * Len(in.ipaddr)
  /\ \A k \in 0 .. in.cidrlen - 1 : bit(in.ipaddr, k) = bit(in.maskaddr, k)

\* The loop never looks behind the zero that ends mask or name, however it goes back.
MatchInBounds ==
  /\ m \in 1 .. Len(mask) + 1 /\ ma \in 1 .. Len(mask) + 1
  /\ n \in 1 .. Len(name) + 1 /\ na \in 1 .. Len(name) + 1

\* match stays within its strings and says what the mask stands for, as it was given or after
\* collapse, unless it gave up after MATCH_MAX_CALLS turns, when it may only have missed a
\* match; match_cidr says it for the nick!user, and whether the address is in the range, if
\* they are of one family.
MatchExact ==
  /\ MatchInBounds
  /\ ret # "none" /\ ~ in.mixed =>
       LET matches == /\ in.mask # <<>> /\ name # <<>>
                      /\ Glob(in.mask, name)
                      /\ in.fn = "match_cidr" => InRange
       IN  /\ ret = "yes" => matches
           /\ matches /\ calls < MATCH_MAX_CALLS => ret = "yes"
=============================================================================
