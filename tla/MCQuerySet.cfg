CONSTANT Setups <- TranslationsAndWalks
SPECIFICATION Spec
CHECK_DEADLOCK FALSE
INVARIANT RowsMatchMeaning
INVARIANT BackendsAgree
INVARIANT DeletedStaysHidden
INVARIANT StablePagination
INVARIANT GroupsPartition
PROPERTY CountFitsRows
