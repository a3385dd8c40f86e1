SPECIFICATION FairSpec
PROPERTIES
    RoomProgress
