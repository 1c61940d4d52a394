--------------------------- MODULE TypeModifiers ---------------------------
(***************************************************************************)
(* Type modifiers (engine/typemod.go): the number in which the catalog has *)
(* the length, precision and scale of a declared type, and what            *)
(* format_type makes of it.                                                *)
(***************************************************************************)
EXTENDS Integers, Sequences

\* A declared type and the numbers in its parentheses, as many as it may have; a scale
\* has sixteen bits.  A char's column is of type text (catalog.go:693-694), of which
\* no modifier is shown; integer stands for the other types.
Declared ==
  {d \in {"varchar", "char", "numeric", "timestamp", "integer"} \X Seq(Nat) :
     IF d[1] = "numeric" THEN Len(d[2]) <= 2 /\ (Len(d[2]) = 2 => d[2][2] < 65536) ELSE Len(d[2]) <= 1}

\* Of a declared type and the numbers in its parentheses; -1 for none.
typeAttTypmod(base, nums) ==
  IF nums = <<>> \/ base = "integer" THEN -1
  ELSE IF base = "numeric" THEN nums[1] * 65536 + (IF Len(nums) >= 2 THEN nums[2] ELSE 0) + 4
  ELSE nums[1] + (IF base \in {"varchar", "char"} THEN 4 ELSE 0)

\* The numbers format_type puts in its parentheses.
formatTypeMod(base, typmod) ==
  IF typmod < 0 \/ base \in {"char", "integer"} THEN <<>>
  ELSE IF base = "numeric" THEN <<(typmod - 4) \div 65536, (typmod - 4) % 65536>>
  ELSE <<typmod - (IF base = "varchar" THEN 4 ELSE 0)>>

typeNumericScale(nums) == IF Len(nums) >= 2 THEN nums[2] ELSE 0

\* format_type shows the numbers of the declaration, and the scale that is not given as
\* 0; the length of a char is not shown (typemod.go:131-176).
TypmodRight(base, nums) ==
  LET shown == formatTypeMod(base, typeAttTypmod(base, nums))
  IN /\ base \in {"char", "integer"} => shown = <<>>
     /\ base = "numeric" /\ nums # <<>> => shown = <<nums[1], typeNumericScale(nums)>>
     /\ base \in {"varchar", "timestamp"} \/ nums = <<>> => shown = nums
=============================================================================
