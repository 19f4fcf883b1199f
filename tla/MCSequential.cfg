SPECIFICATION Spec
INVARIANTS
    TypeOK
    KeptExact PassesAgree UnusedStructsExact
    FilesPartition StatusHonest ReassembledExact
    ReadsBack NeverWrong RearrangedWhole
    ErasedRight ReportTrue CommandsRead
    TablesFollowed TranslatedRight GroupsContiguous
    RoundTrip SourcesAgree MapsTrue
    OptionsCommute ModesFit
PROPERTY
    Ends
