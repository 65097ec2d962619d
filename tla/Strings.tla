------------------------------- MODULE Strings -------------------------------
(***************************************************************************)
(* The memory and string functions of the virtual-memory test environment  *)
(* (micro-arch-tests/performance_tests/env/v/string.c), which go by words  *)
(* where the operands are aligned, against what the C library promises.    *)
(* A state is one call with the memory before and after it.                *)
(***************************************************************************)
EXTENDS Integers

CONSTANTS
  WordSize,    \* sizeof(uintptr_t)
  MemorySize,  \* bytes of the memory
  Bytes,       \* what memset writes
  Memories,    \* the memories of the calls
  Length       \* bound: the longest operand

ASSUME StringsAssumption ==
  /\ WordSize \in {2, 4, 8}
  /\ MemorySize \in Nat /\ MemorySize % WordSize = 0
  /\ Bytes \subseteq 0 .. 255
  /\ Memories \subseteq [0 .. (MemorySize - 1) -> 0 .. 255]
  /\ Length \in Nat

VARIABLES
  before,    \* the memory before the call
  call,      \* the call: function and arguments
  after,     \* the memory after it
  returned   \* the value it returned

strVars == <<before, call, after, returned>>

Address == 0 .. (MemorySize - 1)
Aligned(args) == \A x \in args : x % WordSize = 0

\* The first i below n for which P(i) holds, or n.
First(P(_), n) == CHOOSE i \in 0 .. n : (i = n \/ P(i)) /\ \A j \in 0 .. (i - 1) : ~ P(j)

-----------------------------------------------------------------------------
(* string.c                                                                   *)

\* Stores of size bytes from dest up to dest + len, in order; value is the
\* byte that store k has at offset o in the memory m it finds.
Stored(m, dest, len, size, value(_, _, _)) ==
  LET upTo[k \in 0 .. len] ==
        IF k = 0 THEN m
        ELSE [a \in Address |->
                IF a \in (dest + (k - 1) * size) .. (dest + k * size - 1)
                THEN value(upTo[k - 1], k - 1, a - dest - (k - 1) * size)
                ELSE upTo[k - 1][a]]
  IN upTo[(len + size - 1) \div size]

\* Stores of size bytes that are loaded from src on.
CopiedBy(m, dest, src, len, size) ==
  LET Loaded(now, k, o) == now[src + k * size + o]
  IN Stored(m, dest, len, size, Loaded)

memcpy(m, dest, src, len) ==
  CopiedBy(m, dest, src, len, IF Aligned({dest, src, len}) THEN WordSize ELSE 1)

\* A word whose byte o is that of w or of w shifted up by n bytes.
OrShifted(w, n) ==
  [o \in DOMAIN w |-> IF o >= n /\ w[o] = 0 THEN w[o - n] ELSE w[o]]

\* Stores of the word, which has size bytes.
FilledBy(m, dest, word, len, size) ==
  LET WordByte(now, k, o) == word[o]
  IN Stored(m, dest, len, size, WordByte)

\* Every byte of the word is that one.
WordOf(byte) ==
  OrShifted(OrShifted(OrShifted(
    [o \in 0 .. (WordSize - 1) |-> IF o = 0 THEN byte ELSE 0], 1), 2), 4)

memset(m, dest, byte, len) ==
  IF Aligned({dest, len})
  THEN FilledBy(m, dest, WordOf(byte), len, WordSize)
  ELSE FilledBy(m, dest, [o \in {0} |-> byte], len, 1)

BytesFromStart(s, words) == s  \* mutant: the words that agree are not skipped

\* Where memcmp goes on with bytes.
BytesFrom(s, words) == s + words * WordSize

memcmp(m, s1, s2, n) ==
  LET WordDiffers(k) == \E o \in 0 .. (WordSize - 1) :
                          m[s1 + k * WordSize + o] # m[s2 + k * WordSize + o]
      words == IF Aligned({s1, s2}) THEN First(WordDiffers, n \div WordSize) ELSE 0
      left == n - words * WordSize
      b1 == BytesFrom(s1, words)
      b2 == BytesFrom(s2, words)
      ByteDiffers(i) == m[b1 + i] # m[b2 + i]
      at == First(ByteDiffers, left)
  IN IF at = left THEN 0 ELSE m[b1 + at] - m[b2 + at]

\* Where the loop over one string ends, and the one over two.
strlen(m, s) ==
  LET IsNull(i) == m[s + i] = 0
  IN First(IsNull, MemorySize - s)

strcmp(m, s1, s2) ==
  LET Ends(i) == m[s1 + i] = 0 \/ m[s1 + i] # m[s2 + i]
      at == First(Ends, MemorySize)
  IN m[s1 + at] - m[s2 + at]

\* The byte that ends the loop has been copied.
strcpy(m, dest, src) == CopiedBy(m, dest, src, strlen(m, src) + 1, 1)

-----------------------------------------------------------------------------
(* Calls                                                                      *)

Function == {"memcpy", "memset", "memcmp", "strlen", "strcmp", "strcpy"}
NoCall == [fn |-> "none", p |-> 0, q |-> 0, n |-> 0]
Blank == [a \in Address |-> 0]

StrIdle == before = Blank /\ call = NoCall /\ after = Blank /\ returned = 0

\* The operands lie in the memory, and apart where one is written.
Apart(p, q, n) == p + n <= q \/ q + n <= p
Inside(p, n) == p \in Address /\ p + n <= MemorySize
IsString(m, p) == p \in Address /\ \E a \in p .. (MemorySize - 1) : m[a] = 0

Calls(m, fn, p, q, n) ==
  /\ before' = m
  /\ call' = [fn |-> fn, p |-> p, q |-> q, n |-> n]
  /\ \/ fn = "memcpy" /\ Inside(p, n) /\ Inside(q, n) /\ Apart(p, q, n)
        /\ after' = memcpy(m, p, q, n) /\ returned' = p
     \/ fn = "memset" /\ Inside(p, n) /\ q \in Bytes
        /\ after' = memset(m, p, q, n) /\ returned' = p
     \/ fn = "memcmp" /\ Inside(p, n) /\ Inside(q, n)
        /\ after' = m /\ returned' = memcmp(m, p, q, n)
     \/ fn = "strlen" /\ n = 0 /\ q = 0 /\ IsString(m, p)
        /\ after' = m /\ returned' = strlen(m, p)
     \/ fn = "strcmp" /\ n = 0 /\ IsString(m, p) /\ IsString(m, q)
        /\ after' = m /\ returned' = strcmp(m, p, q)
     \/ fn = "strcpy" /\ n = 0 /\ IsString(m, q) /\ Inside(p, strlen(m, q) + 1)
        /\ Apart(p, q, strlen(m, q) + 1)
        /\ after' = strcpy(m, p, q) /\ returned' = p

Return ==
  /\ call # NoCall
  /\ before' = Blank /\ call' = NoCall /\ after' = Blank /\ returned' = 0

StrNext ==
  \/ /\ call = NoCall
     /\ \E m \in Memories, fn \in Function, p \in Address, q \in Address \cup Bytes,
           n \in 0 .. Length : Calls(m, fn, p, q, n)
  \/ Return

StrSpec == StrIdle /\ [][StrNext]_strVars

-----------------------------------------------------------------------------
(* Properties                                                                 *)

SignOf(n) == IF n < 0 THEN -1 ELSE IF n > 0 THEN 1 ELSE 0

\* How two runs of bytes compare: by the first that differs, unsigned.
Comparison(m, p, q, n) ==
  LET differ == {i \in 0 .. (n - 1) : m[p + i] # m[q + i]}
  IN IF differ = {} THEN 0
     ELSE LET i == CHOOSE i \in differ : \A j \in differ : i <= j
          IN SignOf(m[p + i] - m[q + i])

Copy(m, p, q, n) ==
  [a \in Address |-> IF a \in p .. (p + n - 1) THEN m[q + a - p] ELSE m[a]]

StringLength(m, p) == CHOOSE i \in 0 .. MemorySize :
                        m[p + i] = 0 /\ \A j \in 0 .. (i - 1) : m[p + j] # 0

\* What the C library promises of each function, wherever its operands lie:
\* going by words must not change a result or touch a byte outside.
StringsExact ==
  LET c == call
  IN CASE c.fn = "memcpy" -> after = Copy(before, c.p, c.q, c.n)
       [] c.fn = "memset" ->
            after = [a \in Address |-> IF a \in c.p .. (c.p + c.n - 1) THEN c.q ELSE before[a]]
       [] c.fn = "memcmp" -> SignOf(returned) = Comparison(before, c.p, c.q, c.n)
       [] c.fn = "strlen" -> returned = StringLength(before, c.p)
       [] c.fn = "strcmp" ->
            LET p == StringLength(before, c.p)
                q == StringLength(before, c.q)
            IN SignOf(returned) = Comparison(before, c.p, c.q, 1 + IF p < q THEN p ELSE q)
       [] c.fn = "strcpy" ->
            after = Copy(before, c.p, c.q, StringLength(before, c.q) + 1)
       [] OTHER -> TRUE

=============================================================================
