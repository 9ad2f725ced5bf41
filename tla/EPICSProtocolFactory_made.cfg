CONSTANT Definitions <- SomeDefinitions
SPECIFICATION Spec
INVARIANTS MadeAsDocumented CallbackOnLiveMembers
