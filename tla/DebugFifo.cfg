SPECIFICATION FairSpec
CONSTANT MaxWrites = 18
INVARIANTS NoOverrun
PROPERTIES RefinesQueue WordArrives RoomIsSeen
