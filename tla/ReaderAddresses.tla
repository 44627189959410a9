--------------------------- MODULE ReaderAddresses ---------------------------
(***************************************************************************)
(* The addresses of the reader (src/extractor/src/parser/XCELReader.cpp,   *)
(* setAddressingScheme() to goToNextAddress()): a file is read byte by     *)
(* byte or from separator to separator.  Positions count from 0 and wrap   *)
(* at LENGTH_MAX; addressPointer is an index of addressVector, from 0, as  *)
(* in the code.                                                            *)
(***************************************************************************)
EXTENDS Integers, Sequences, SequencesExt, FiniteSetsExt

CONSTANTS
  LENGTH_MAX,   \* the largest _LENGTH
  Before        \* what the memory before the first address may hold

ASSUME LengthMaxAssumption == LENGTH_MAX \in Nat /\ LENGTH_MAX % 2 = 1
ASSUME BeforeAssumption == Before \subseteq 0 .. LENGTH_MAX

VARIABLES
  binaryArray,        \* the bytes of the file
  startposition,      \* state.startposition
  addrScheme, addressSeperator,   \* props
  addressVector,      \* the separators gone to, in the order of the visits
  addressPointer

addressVars == <<startposition, addrScheme, addressSeperator, addressVector, addressPointer>>

Wrapped(n) == n % (LENGTH_MAX + 1)
\* A position handed over as an int.
Signed(p) == IF p > LENGTH_MAX \div 2 THEN p - (LENGTH_MAX + 1) ELSE p

Size == Len(binaryArray)

AddressInit ==
  /\ startposition = 0
  /\ addrScheme \in {"BYTE", "SEPARATOR", "UNKNOWN"}   \* the constructor leaves it as it is
  /\ addressSeperator = <<>>
  /\ addressVector = <<0>> /\ addressPointer = 0

\* QByteArray::indexOf(): a negative start counts from the end, -1 is "nowhere".
IndexOfBytes(bytes, from) ==
  LET start  == IF from < 0 THEN Max({from + Size, 0}) ELSE from
      places == {p \in start .. Size - Len(bytes) :
                   SubSeq(binaryArray, p + 1, p + Len(bytes)) = bytes}
  IN  IF places = {} THEN -1 ELSE Min(places)

SetAddressingScheme(scheme, separator) ==
  /\ addrScheme' = CASE scheme = "separator" -> "SEPARATOR"
                     [] scheme = "byte"      -> "BYTE"
                     [] OTHER                -> addrScheme
  /\ addressSeperator' = separator
  /\ UNCHANGED <<startposition, addressVector, addressPointer>>

\* The separator behind `position', or -1: a file that ends with a separator
\* has no address behind it.
NextSeparator(position) ==
  LET found == IndexOfBytes(addressSeperator, Signed(position))
      tmp == CASE Wrapped(found) # position -> found
               [] Wrapped(found) = position /\ found # Size ->
                    IndexOfBytes(addressSeperator, Signed(Wrapped(position + 1)))
               [] OTHER -> -1
  IN  IF tmp = Size - 1 THEN -1 ELSE tmp

RECURSIVE SeparatorsBehind(_)
SeparatorsBehind(position) ==
  LET next == NextSeparator(position)
  IN  IF next = -1 THEN <<>> ELSE <<next>> \o SeparatorsBehind(next)

GoToNextAddress ==
  /\ CASE addrScheme = "BYTE" ->
            /\ startposition' = Wrapped(startposition + 1)
            /\ UNCHANGED <<addressVector, addressPointer>>
       [] addrScheme = "SEPARATOR" /\ NextSeparator(startposition) # -1 ->
            /\ startposition' = NextSeparator(startposition)
            /\ addressVector' = Append(addressVector, startposition')
            /\ addressPointer' = Len(addressVector)
       [] OTHER -> UNCHANGED <<startposition, addressVector, addressPointer>>
  /\ UNCHANGED <<addrScheme, addressSeperator>>

\* addressVector.at(): before the first address lies memory of the vector.
AddressAt(vector, pointer) ==
  IF pointer \in 0 .. Len(vector) - 1 THEN {vector[pointer + 1]} ELSE Before

GoToPreviousAddress_Stays ==
  /\ CASE addrScheme = "BYTE" ->
            /\ startposition' = Wrapped(startposition - 1)
            /\ UNCHANGED addressPointer
       [] addrScheme = "SEPARATOR" ->
            /\ addressPointer' = addressPointer - 1
            /\ startposition' \in AddressAt(addressVector, addressPointer)
       [] OTHER -> UNCHANGED <<startposition, addressPointer>>
  /\ UNCHANGED <<addrScheme, addressSeperator, addressVector>>
GoToPreviousAddress ==
  /\ CASE addrScheme = "BYTE" ->
            /\ startposition' = Wrapped(startposition - 1)
            /\ UNCHANGED addressPointer
       [] addrScheme = "SEPARATOR" ->
            /\ addressPointer' = addressPointer - 1
            /\ startposition' \in AddressAt(addressVector, addressPointer - 1)
       [] OTHER -> UNCHANGED <<startposition, addressPointer>>
  /\ UNCHANGED <<addrScheme, addressSeperator, addressVector>>

\* goToPreviousAddress() follows in every scheme: the end of the file, the last
\* entry of the vector, is gone back from.
GoToLastAddress ==
  /\ CASE addrScheme = "BYTE" ->
            /\ startposition' = Wrapped(Size - 2)
            /\ UNCHANGED <<addressVector, addressPointer>>
       [] addrScheme = "SEPARATOR" ->
            /\ addressVector' =
                 addressVector \o SeparatorsBehind(startposition) \o <<Wrapped(Size - 1)>>
            /\ addressPointer' = Len(addressVector') - 2
            /\ startposition' \in AddressAt(addressVector', addressPointer')
       [] OTHER -> UNCHANGED <<startposition, addressVector, addressPointer>>
  /\ UNCHANGED <<addrScheme, addressSeperator>>
=============================================================================
