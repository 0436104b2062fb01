CONSTANTS
  a = a
  b = b
  c = c
  Names = {a, b, c}
  Main = Main
  None = None
  MaxLen = 3
  Tasks = {t1}
  Texts <- SomeTexts
SPECIFICATION Spec
INVARIANTS SlotsApart ReadsOwn
PROPERTIES NamesStay ScopesSpec
