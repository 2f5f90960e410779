SPECIFICATION Spec

CONSTANTS
    PurposeNames = {"foo", "bar"}
    Addresses = {1, 2, 3}
    Nil = Nil
    NoName = NoName
    Selectors <- MCSelectors
    EntryLists <- MCEntryLists

INVARIANTS
    FirstMatchDecides
    PanicsOnlyIfCircular

CHECK_DEADLOCK FALSE
