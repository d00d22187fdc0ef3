SPECIFICATION Spec
INVARIANTS InsertsRight ErasuresRight ContentsKept PoliciesRight BitsRight ArithmeticRight
PROPERTIES CipherIsAes
