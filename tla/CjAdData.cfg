\* Every conversion, memory running out anywhere in an answer.
SPECIFICATION ConvertSpec
CONSTANTS
  AdLists <- AdAnswers
  SlotLists <- SlotAnswers
  ExtraKeys <- SomeKeys
  Extras <- SomeExtras
  MaxSlots = 3
INVARIANTS AcceptsExactly NothingLeaks RequestArrives
