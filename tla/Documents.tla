------------------------------ MODULE Documents -------------------------------
(***************************************************************************)
(* The documents of customers: CPF (11 digits) and CNPJ (14 digits), each  *)
(* ending in two check digits.  A text is a sequence of digits and         *)
(* separators.                                                             *)
(***************************************************************************)
EXTENDS Naturals, Sequences, Functions

Digits == 0..9
Separator == 10

\* Normalize keeps the digits of the text: of its first n characters, kept[n].
Normalize(text) ==
  LET kept[n \in 0..Len(text)] ==
        IF n = 0 THEN <<>>
        ELSE IF text[n] \in Digits THEN Append(kept[n - 1], text[n])
        ELSE kept[n - 1]
  IN kept[Len(text)]

\* The sum of the first n digits, each multiplied by its weight.
Weighted(doc, n, weight(_)) ==
  SumFunction([i \in 1..n |-> doc[i] * weight(i)])

CheckDigit(sum) ==
  LET digit == 11 - (sum % 11) IN IF digit > 9 THEN 0 ELSE digit

\* Defect for the mutants: the second check digit is not looked at.
IsValidCPFChecksumFirst(cpf) ==
  /\ \E i \in 2..11 : cpf[i] # cpf[1]
  /\ cpf[10] = CheckDigit(Weighted(cpf, 9, LAMBDA i : 11 - i))

IsValidCPFChecksum(cpf) ==
  /\ \E i \in 2..11 : cpf[i] # cpf[1]
  /\ cpf[10] = CheckDigit(Weighted(cpf, 9, LAMBDA i : 11 - i))
  /\ cpf[11] = CheckDigit(Weighted(cpf, 10, LAMBDA i : 12 - i))

Multiplier1 == <<5, 4, 3, 2, 9, 8, 7, 6, 5, 4, 3, 2>>
Multiplier2 == <<6, 5, 4, 3, 2, 9, 8, 7, 6, 5, 4, 3, 2>>

IsValidCNPJChecksum(cnpj) ==
  /\ cnpj[13] = CheckDigit(Weighted(cnpj, 12, LAMBDA i : Multiplier1[i]))
  /\ cnpj[14] = CheckDigit(Weighted(cnpj, 13, LAMBDA i : Multiplier2[i]))

ValidateDocument(type, doc) ==
  \/ type = "CPF" /\ Len(doc) = 11 /\ IsValidCPFChecksum(doc)
  \/ type = "CNPJ" /\ Len(doc) = 14 /\ IsValidCNPJChecksum(doc)

-----------------------------------------------------------------------------
(***************************************************************************)
(* The rule of the issuing authority in its other form, by which the       *)
(* program is judged: counted from the right, a digit weighs 2, 3, 4 and   *)
(* so on (in a CNPJ from 2 to 9 and again from 2), and the check digit is  *)
(* ten times the sum, modulo 11, modulo 10.                                *)
(***************************************************************************)
Cycle(type) == IF type = "CPF" THEN 11 ELSE 8

Follows(type, doc, n) ==
  doc[n] = ((10 * Weighted(doc, n - 1,
                    LAMBDA i : 2 + ((n - 1 - i) % Cycle(type)))) % 11) % 10

WellFormed(type, doc) ==
  LET size == IF type = "CPF" THEN 11 ELSE 14
  IN Len(doc) = size /\ Follows(type, doc, size - 1) /\ Follows(type, doc, size)
===============================================================================
