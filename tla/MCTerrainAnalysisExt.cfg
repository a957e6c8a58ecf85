SPECIFICATION FairSpec
CONSTANTS
    Width = 5
    Clouds <- MCClouds
    LocalMaps <- MCLocalMaps
    Tuning <- MCTuning
    QuantileZ = 10
    Reach = 2
    TerrainUnderVehicle <- MCUnderVehicle
    TerrainConnThre = 12
    CeilingFilteringThre = 25
    LocalRadius = 1
INVARIANTS GroundConnected MarksTurnWithGrid
PROPERTY ScanAnswered
VIEW MCView
