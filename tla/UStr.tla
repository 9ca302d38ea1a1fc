-------------------------------- MODULE UStr ---------------------------------
(***************************************************************************)
(* UStr of src/src/ustr.rs: a string's bytes copied to the arena with a    *)
(* nul behind them, and their count in a field of 16 bits.  It is read as  *)
(* a Rust string by the count, and as a C string up to the first nul, even *)
(* after the arena's death: it has no drop function.  One string.          *)
(***************************************************************************)
EXTENDS Tenants

CONSTANTS CountMax,  \* values of the count: 2^16
          EntryBytes \* bytes of a table entry, in which blocks are measured

ASSUME UStrAssumption ==
  /\ CountMax \in Nat /\ CountMax >= 2
  /\ EntryBytes \in Nat \ {0}

\* A character of one byte, a byte that is not UTF-8 where it stands, and nul.
Byte == {"char", "stray", "nul"}

NoText == [given |-> <<>>, bytes |-> <<>>, count |-> 0]

VARIABLE text \* what was given, and what UStr holds: NoText before that

UStrTypeOK ==
  text \in [given : Seq(Byte), bytes : Seq(Byte), count : 0..(CountMax - 1)]

UStrInit == text = NoText

\* MAX_USTR
MaxUStr == CountMax - 2

\* What the callers hand over: a &str has no stray bytes, a CStr no nul.
Strs  == SeqOf({"char", "nul"}, CountMax + 1)
CStrs == SeqOf({"char", "stray"}, CountMax + 1)

\* Mutant: from_str leaves the nuls to the reader.
AcceptsStrWithNul(s) == Len(s) <= MaxUStr

\* Mutant: from_str leaves the length to the arena.
AcceptsStrOfAnyLength(s) == ~Contains(s, "nul")

AcceptsStr(s) == Len(s) <= MaxUStr /\ ~Contains(s, "nul")
AcceptsCStr(s) == Len(s) <= MaxUStr /\ ~Contains(s, "stray")

\* from_str_unchecked
UStrOf(s) ==
  [given |-> s, bytes |-> Append(s, "nul"), count |-> Len(s) % CountMax]

\* UStr::from_str and from_cstr, from_trusted_cstr_ptr.  Refusals, and a block
\* too small for the bytes, leave everything as it is.
UStrNew(s) ==
  /\ Calling /\ IsAlive /\ text = NoText
  /\ (s \in Strs /\ AcceptsStr(s)) \/ (s \in CStrs /\ AcceptsCStr(s))
  /\ Len(s) + 1 <= largest * EntryBytes
  /\ text' = UStrOf(s)
  /\ UNCHANGED tenantVars

-----------------------------------------------------------------------------

\* AsRef<str>, and Debug, Display and == through it.
StrView == SubSeq(text.bytes, 1, text.count)

\* AsRef<CStr>
CStrView ==
  LET nul == SelectInSeq(text.bytes, LAMBDA b : b = "nul") IN
  SubSeq(text.bytes, 1, nul - 1)
=============================================================================
